---- MODULE Spec2Model ----
(***************************************************************************)
(* The transaction memory pool of src/src/mempool/txmempool.cpp            *)
(* (CTxMemPool): the entries with their ancestor/descendant aggregates,    *)
(* the link graph (mapLinks), the outpoint index (mapNextTx), the fee      *)
(* deltas (mapDeltas), the witness-hash vector (vTxHashes), the rolling    *)
(* minimum feerate, and the operations on them.                            *)
(***************************************************************************)
EXTENDS Integers, Sequences, FiniteSets, TLC

(***************************************************************************)
(* Bounds of the model.                                                    *)
(***************************************************************************)
MaxTime == 1
MaxHeight == 1
MaxPrio == 1
MaxOps == 4
MaxBlockTxs == 2
MaxConflicts == 5

(***************************************************************************)
(* Program constants and tunables (gArgs).                                 *)
(***************************************************************************)
SEQUENCE_FINAL == 2147483647
MAX_BIP125_RBF_SEQUENCE == SEQUENCE_FINAL - 2
maxDescendantsToVisit == 100
nLimitAncestors == 3
nLimitAncestorSizeKB == 1
nLimitDescendants == 3
nLimitDescendantSizeKB == 1
nLimitAncestorSize == nLimitAncestorSizeKB * 1000
nLimitDescendantSize == nLimitDescendantSizeKB * 1000
MaxMempool == 30
MempoolExpiry == 0
incrementalRelayFee == 1000
minRelayTxFee == 1000
AbsurdFee == 700
FeeDelta == 50
nNoLimit == 1000000

(***************************************************************************)
(* The transactions the callers may submit.  An input is a record          *)
(* [hash, n, nSequence]: the outpoint (hash, n) it spends and its sequence *)
(* number.  Hash 0 is the confirmed funding transaction of the initial     *)
(* UTXO set.                                                               *)
(***************************************************************************)
RBF == MAX_BIP125_RBF_SEQUENCE
FIN == SEQUENCE_FINAL

In(h, n, s) == [hash |-> h, n |-> n, nSequence |-> s]

TxTable ==
  <<
    \* 1: A, spends a confirmed coin, signals replaceability
    [vin |-> {In(0, 1, RBF)}, nout |-> 2, nFee |-> 200, size |-> 100, nLockTime |-> 0, sigOpCost |-> 2],
    \* 2: B, child of A
    [vin |-> {In(1, 0, RBF)}, nout |-> 1, nFee |-> 300, size |-> 100, nLockTime |-> 0, sigOpCost |-> 1],
    \* 3: C, child of B and of A, every input final (opts out of replacement)
    [vin |-> {In(2, 0, FIN), In(1, 1, FIN)}, nout |-> 1, nFee |-> 100, size |-> 100, nLockTime |-> 0, sigOpCost |-> 1],
    \* 4: A2, double-spends A's input
    [vin |-> {In(0, 1, RBF)}, nout |-> 1, nFee |-> 600, size |-> 100, nLockTime |-> 0, sigOpCost |-> 1],
    \* 5: X, double-spends A's input and spends the second output of A
    [vin |-> {In(0, 1, RBF), In(1, 1, RBF)}, nout |-> 1, nFee |-> 800, size |-> 100, nLockTime |-> 0, sigOpCost |-> 3],
    \* 6: E, one final input and one signalling input; time-locked to height 1
    [vin |-> {In(0, 2, FIN), In(0, 3, RBF)}, nout |-> 1, nFee |-> 300, size |-> 200, nLockTime |-> 1, sigOpCost |-> 4],
    \* 7: R, double-spends E's first input and C's first input (an output of B)
    [vin |-> {In(0, 2, RBF), In(2, 0, RBF)}, nout |-> 1, nFee |-> 700, size |-> 100, nLockTime |-> 0, sigOpCost |-> 2],
    \* 8: B2, double-spends B's input (an output of A)
    [vin |-> {In(1, 0, RBF)}, nout |-> 1, nFee |-> 700, size |-> 200, nLockTime |-> 0, sigOpCost |-> 1],
    \* 9: D, child of C
    [vin |-> {In(3, 0, RBF)}, nout |-> 1, nFee |-> 100, size |-> 100, nLockTime |-> 0, sigOpCost |-> 1]
  >>

TxIds == 1..Len(TxTable)
Tx(h) == TxTable[h]

OutPoint(h, n) == <<h, n>>
Prevouts(h) == {OutPoint(i.hash, i.n) : i \in Tx(h).vin}
PrevHashes(h) == {i.hash : i \in Tx(h).vin}
Outputs(h) == {OutPoint(h, n) : n \in 0..(Tx(h).nout - 1)}
GenesisCoins == {OutPoint(0, 1), OutPoint(0, 2), OutPoint(0, 3)}

(***************************************************************************)
(* Arithmetic helpers.                                                     *)
(***************************************************************************)
RECURSIVE SumOver(_, _)
SumOver(S, f) ==
  IF S = {} THEN 0
  ELSE LET x == CHOOSE y \in S : TRUE IN f[x] + SumOver(S \ {x}, f)

\* C++ integer division truncates toward zero
TruncDiv(a, b) == IF a >= 0 THEN a \div b ELSE -((-a) \div b)

Max(a, b) == IF a >= b THEN a ELSE b
Min(a, b) == IF a <= b THEN a ELSE b

RECURSIVE Pow2(_)
Pow2(n) == IF n <= 0 THEN 1 ELSE 2 * Pow2(n - 1)

\* the elements of a set of integers in ascending order
RECURSIVE SortedSeq(_)
SortedSeq(S) ==
  IF S = {} THEN << >>
  ELSE LET m == CHOOSE x \in S : \A y \in S : x <= y IN <<m>> \o SortedSeq(S \ {m})

\* CFeeRate(nFeePaid, nBytes): satoshis per 1000 bytes
CFeeRate(nFeePaid, nBytes) == IF nBytes > 0 THEN TruncDiv(nFeePaid * 1000, nBytes) ELSE 0

\* CFeeRate::GetFee(nBytes)
GetFee(nSatoshisPerK, nBytes) ==
  LET nFee == TruncDiv(nSatoshisPerK * nBytes, 1000) IN
  IF nFee = 0 /\ nBytes # 0
  THEN (IF nSatoshisPerK > 0 THEN 1 ELSE IF nSatoshisPerK < 0 THEN -1 ELSE 0)
  ELSE nFee


(***************************************************************************)
(* Memory accounting (memusage): the usage of one element of each          *)
(* container, in the model's units.                                        *)
(***************************************************************************)
EntryOverhead == 1
NextTxUsage == 1
DeltaUsage == 1
LinksUsage == 1
TxHashUsage == 1
SetNodeUsage == 1

\* CTxMemPoolEntry::DynamicMemoryUsage(): nUsageSize of the transaction
nUsageSize(h) == 1 + Cardinality(Tx(h).vin) + Tx(h).nout

(***************************************************************************)
(* Finite maps.                                                            *)
(***************************************************************************)
Drop(f, S) == [x \in (DOMAIN f) \ S |-> f[x]]
Put(f, k, v) == [x \in (DOMAIN f) \cup {k} |-> IF x = k THEN v ELSE f[x]]

(***************************************************************************)
(* CTxMemPoolEntry.                                                        *)
(***************************************************************************)
GetTxSize(h) == Tx(h).size
GetSigOpCost(h) == Tx(h).sigOpCost

\* CTxMemPoolEntry::CTxMemPoolEntry
NewEntry(h, nFees, nAcceptTime) ==
  [nFee |-> nFees, nTime |-> nAcceptTime, feeDelta |-> 0,
   nCountWithDescendants |-> 1,
   nSizeWithDescendants |-> GetTxSize(h),
   nModFeesWithDescendants |-> nFees,
   nCountWithAncestors |-> 1,
   nSizeWithAncestors |-> GetTxSize(h),
   nModFeesWithAncestors |-> nFees,
   nSigOpCostWithAncestors |-> GetSigOpCost(h),
   vTxHashesIdx |-> 0,
   assertFailed |-> FALSE]

GetModifiedFee(e) == e.nFee + e.feeDelta

\* the new delta added to the stored one instead of replacing it
UpdateFeeDelta_Adds(e, newFeeDelta) ==
  [e EXCEPT !.nModFeesWithDescendants = @ + newFeeDelta,
            !.nModFeesWithAncestors = @ + newFeeDelta,
            !.feeDelta = @ + newFeeDelta]

\* CTxMemPoolEntry::UpdateFeeDelta
UpdateFeeDelta(e, newFeeDelta) ==
  [e EXCEPT !.nModFeesWithDescendants = @ + (newFeeDelta - e.feeDelta),
            !.nModFeesWithAncestors = @ + (newFeeDelta - e.feeDelta),
            !.feeDelta = newFeeDelta]

\* UpdateDescendantState with the fee left out
UpdateDescendantState_NoFee(e, modifySize, modifyFee, modifyCount) ==
  [e EXCEPT !.nSizeWithDescendants = @ + modifySize,
            !.nCountWithDescendants = @ + modifyCount]

\* UpdateDescendantState that adds nothing to the size and the count, and
\* subtracts from them
UpdateDescendantState_SubtractsOnly(e, modifySize, modifyFee, modifyCount) ==
  [e EXCEPT !.nSizeWithDescendants = @ + Min(modifySize, 0),
            !.nModFeesWithDescendants = @ + modifyFee,
            !.nCountWithDescendants = @ + Min(modifyCount, 0),
            !.assertFailed = \/ @
                             \/ ~(e.nSizeWithDescendants + Min(modifySize, 0) > 0)
                             \/ ~(e.nCountWithDescendants + Min(modifyCount, 0) > 0)]

\* CTxMemPoolEntry::UpdateDescendantState; assertFailed records an assert
\* of the entry that did not hold
UpdateDescendantState(e, modifySize, modifyFee, modifyCount) ==
  [e EXCEPT !.nSizeWithDescendants = @ + modifySize,
            !.nModFeesWithDescendants = @ + modifyFee,
            !.nCountWithDescendants = @ + modifyCount,
            !.assertFailed = \/ @
                             \/ ~(e.nSizeWithDescendants + modifySize > 0)
                             \/ ~(e.nCountWithDescendants + modifyCount > 0)]

\* UpdateAncestorState without the sigop cost
UpdateAncestorState_NoSigOps(e, modifySize, modifyFee, modifyCount, modifySigOps) ==
  [e EXCEPT !.nSizeWithAncestors = @ + modifySize,
            !.nModFeesWithAncestors = @ + modifyFee,
            !.nCountWithAncestors = @ + modifyCount]

\* CTxMemPoolEntry::UpdateAncestorState
UpdateAncestorState(e, modifySize, modifyFee, modifyCount, modifySigOps) ==
  [e EXCEPT !.nSizeWithAncestors = @ + modifySize,
            !.nModFeesWithAncestors = @ + modifyFee,
            !.nCountWithAncestors = @ + modifyCount,
            !.nSigOpCostWithAncestors = @ + modifySigOps,
            !.assertFailed = \/ @
                             \/ ~(e.nSizeWithAncestors + modifySize > 0)
                             \/ ~(e.nCountWithAncestors + modifyCount > 0)
                             \/ ~(e.nSigOpCostWithAncestors + modifySigOps >= 0)]

(***************************************************************************)
(* The pool p is the record of CTxMemPool's fields:                        *)
(*   mapTx       txid -> entry            mapLinks   txid -> TxLinks       *)
(*   mapNextTx   outpoint -> txid         mapDeltas  txid -> fee delta     *)
(*   vTxHashes   sequence of txids        totalTxSize, cachedInnerUsage    *)
(*   rollingMinimumFeeRate, lastRollingFeeUpdate,                          *)
(*   blockSinceLastRollingFeeBump                                          *)
(* with signals, the notifications the operation in progress has emitted,  *)
(* assertFailed, whether an assert of an entry that has left the pool did  *)
(* not hold, and estimator, the calls of minerPolicyEstimator->            *)
(* processTransaction(entry, validFeeEstimate) of the operation in         *)
(* progress.                                                               *)
(***************************************************************************)
EmptyPool(nTime) ==
  [mapTx |-> << >>, mapLinks |-> << >>, mapNextTx |-> << >>, mapDeltas |-> << >>,
   vTxHashes |-> << >>, totalTxSize |-> 0, cachedInnerUsage |-> 0,
   rollingMinimumFeeRate |-> 0, lastRollingFeeUpdate |-> nTime,
   blockSinceLastRollingFeeBump |-> FALSE, signals |-> << >>,
   assertFailed |-> FALSE, estimator |-> << >>]

exists(p, h) == h \in DOMAIN p.mapTx
GetMemPoolParents(p, h) == p.mapLinks[h].parents
GetMemPoolChildren(p, h) == p.mapLinks[h].children
ModFee(p, h) == GetModifiedFee(p.mapTx[h])

\* CTxMemPool::DynamicMemoryUsage
DynamicMemoryUsage(p) ==
  EntryOverhead * Cardinality(DOMAIN p.mapTx)
  + NextTxUsage * Cardinality(DOMAIN p.mapNextTx)
  + DeltaUsage * Cardinality(DOMAIN p.mapDeltas)
  + LinksUsage * Cardinality(DOMAIN p.mapLinks)
  + TxHashUsage * Len(p.vTxHashes)
  + p.cachedInnerUsage

\* CTxMemPool::CalculateDescendants: the work list of the loop
RECURSIVE DescendantsStage(_, _, _)
DescendantsStage(p, stage, setDescendants) ==
  IF stage = {} THEN setDescendants
  ELSE LET it == CHOOSE x \in stage : \A y \in stage : x <= y
           set2 == setDescendants \cup {it}
           next == {c \in GetMemPoolChildren(p, it) : c \notin set2}
       IN DescendantsStage(p, (stage \ {it}) \cup next, set2)

CalculateDescendants(p, entryit, setDescendants) ==
  DescendantsStage(p, IF entryit \in setDescendants THEN {} ELSE {entryit}, setDescendants)

\* CalculateDescendants over every member of a set of entries
RECURSIVE CalculateDescendantsAll(_, _, _)
CalculateDescendantsAll(p, S, acc) ==
  IF S = {} THEN acc
  ELSE LET it == CHOOSE x \in S : \A y \in S : x <= y
       IN CalculateDescendantsAll(p, S \ {it}, CalculateDescendants(p, it, acc))

\* CTxMemPool::CalculateMemPoolAncestors: the work list of the loop
RECURSIVE AncestorsStage(_, _, _)
AncestorsStage(p, parentHashes, setAncestors) ==
  IF parentHashes = {} THEN setAncestors
  ELSE LET stageit == CHOOSE x \in parentHashes : \A y \in parentHashes : x <= y
           set2 == setAncestors \cup {stageit}
           next == {ph \in GetMemPoolParents(p, stageit) : ph \notin set2}
       IN AncestorsStage(p, (parentHashes \ {stageit}) \cup next, set2)

\* The parents the search starts from: by mapTx.find when fSearchForParents,
\* else the entry's own links.
SearchParents(p, h, fSearchForParents) ==
  IF fSearchForParents THEN {ph \in PrevHashes(h) : exists(p, ph)}
  ELSE GetMemPoolParents(p, h)

\* the descendant count of an ancestor not limited
TooManyDescendants_Unlimited(nCountWithDescendants, limitDescendantCount) == FALSE

\* the descendant count test with the candidate not counted
TooManyDescendants_WithoutCandidate(nCountWithDescendants, limitDescendantCount) ==
  nCountWithDescendants > limitDescendantCount

\* "too many descendants for tx": the ancestor's count with the candidate
TooManyDescendants(nCountWithDescendants, limitDescendantCount) ==
  nCountWithDescendants + 1 > limitDescendantCount

\* CTxMemPool::CalculateMemPoolAncestors: the limits, on the parents the
\* search starts from (direct) and the ancestors it finds (anc)
AncestorLimits(p, h, direct, anc, limitAncestorCount, limitAncestorSize, limitDescendantCount, limitDescendantSize, fSearchForParents) ==
  LET sizes == [a \in anc |-> GetTxSize(a)]
      tooManyParents == fSearchForParents /\ Cardinality(direct) + 1 > limitAncestorCount
      tooManyAncestors == Cardinality(anc) + 1 > limitAncestorCount
                          /\ \E a \in anc : GetMemPoolParents(p, a) # {}
      tooBig == GetTxSize(h) + SumOver(anc, sizes) > limitAncestorSize
      descSize == \E a \in anc :
                    p.mapTx[a].nSizeWithDescendants + GetTxSize(h) > limitDescendantSize
      descCount == \E a \in anc :
                    TooManyDescendants(p.mapTx[a].nCountWithDescendants, limitDescendantCount)
  IN [ok |-> ~(tooManyParents \/ tooManyAncestors \/ tooBig \/ descSize \/ descCount),
      setAncestors |-> anc]

\* CTxMemPool::CalculateMemPoolAncestors: [ok, setAncestors]
CalculateMemPoolAncestors(p, h, limitAncestorCount, limitAncestorSize, limitDescendantCount, limitDescendantSize, fSearchForParents) ==
  AncestorLimits(p, h, SearchParents(p, h, fSearchForParents),
                 AncestorsStage(p, SearchParents(p, h, fSearchForParents), {}),
                 limitAncestorCount, limitAncestorSize, limitDescendantCount,
                 limitDescendantSize, fSearchForParents)

\* the parents alone, for all the ancestors
AncestorsNoLimit_ParentsOnly(p, h, fSearchForParents) == GetMemPoolParents(p, h)

AncestorsNoLimit(p, h, fSearchForParents) ==
  CalculateMemPoolAncestors(p, h, nNoLimit, nNoLimit, nNoLimit, nNoLimit,
                            fSearchForParents).setAncestors


(***************************************************************************)
(* Notifications to the observers.                                         *)
(***************************************************************************)
NotifyEntryAdded(h) == [kind |-> "EntryAdded", tx |-> h, reason |-> "NONE"]
NotifyEntryRemoved(h, reason) == [kind |-> "EntryRemoved", tx |-> h, reason |-> reason]
TransactionAddedToMempool(h) == [kind |-> "TransactionAddedToMempool", tx |-> h, reason |-> "NONE"]

\* the entry inserted as it was built, whatever mapDeltas holds for it
EntryWithDelta_Ignored(p, hash, entry) == entry

\* addUnchecked: "mapDeltas.find(hash)", the fee delta recorded by
\* PrioritiseTransaction applied to the inserted entry
EntryWithDelta(p, hash, entry) ==
  IF hash \in DOMAIN p.mapDeltas /\ p.mapDeltas[hash] # 0
  THEN UpdateFeeDelta(entry, p.mapDeltas[hash])
  ELSE entry

(***************************************************************************)
(* CTxMemPool::addUnchecked(hash, entry, setAncestors, validFeeEstimate),  *)
(* from its LOCK(cs) on: the entry inserted, its links, mapNextTx and the  *)
(* aggregates of its ancestors                                             *)
(***************************************************************************)
addUncheckedInsert(p, hash, entry, setAncestors, validFeeEstimate) ==
  LET newEntry == EntryWithDelta(p, hash, entry)
      \* mapNextTx.insert keeps a record that is already there
      nextTx == [o \in (DOMAIN p.mapNextTx) \cup Prevouts(hash) |->
                   IF o \in DOMAIN p.mapNextTx THEN p.mapNextTx[o] ELSE hash]
      \* UpdateParent(newit, pit, true) for the parents found in mapTx
      parents == {ph \in PrevHashes(hash) : exists(p, ph)}
      \* UpdateAncestorsOf(true, newit, setAncestors): UpdateChild on every parent
      links == [h \in (DOMAIN p.mapLinks) \cup {hash} |->
                  IF h = hash THEN [parents |-> parents, children |-> {}]
                  ELSE IF h \in parents
                       THEN [p.mapLinks[h] EXCEPT !.children = @ \cup {hash}]
                       ELSE p.mapLinks[h]]
      newChildLinks == Cardinality({h \in parents : hash \notin p.mapLinks[h].children})
      updateSize == GetTxSize(hash)
      updateFee == GetModifiedFee(newEntry)
      \* UpdateEntryForAncestors(newit, setAncestors)
      ancSize == SumOver(setAncestors, [a \in setAncestors |-> GetTxSize(a)])
      ancFee == SumOver(setAncestors, [a \in setAncestors |-> ModFee(p, a)])
      ancSigOps == SumOver(setAncestors, [a \in setAncestors |-> GetSigOpCost(a)])
      stored == [UpdateAncestorState(newEntry, ancSize, ancFee,
                                     Cardinality(setAncestors), ancSigOps)
                   EXCEPT !.vTxHashesIdx = Len(p.vTxHashes) + 1]
      mapTx == [h \in (DOMAIN p.mapTx) \cup {hash} |->
                  IF h = hash THEN stored
                  ELSE IF h \in setAncestors
                       THEN UpdateDescendantState(p.mapTx[h], updateSize, updateFee, 1)
                       ELSE p.mapTx[h]]
  IN [p EXCEPT !.mapTx = mapTx,
               !.mapLinks = links,
               !.mapNextTx = nextTx,
               !.cachedInnerUsage = @ + nUsageSize(hash)
                                      + SetNodeUsage * (Cardinality(parents) + newChildLinks),
               !.totalTxSize = @ + GetTxSize(hash),
               !.estimator = Append(@, [hash |-> hash, validFeeEstimate |-> validFeeEstimate]),
               !.vTxHashes = Append(@, hash)]

\* addUnchecked: "NotifyEntryAdded(entry.GetSharedTx())", its first statement
addUncheckedNotify(p, hash) == [p EXCEPT !.signals = Append(@, NotifyEntryAdded(hash))]

\* CTxMemPool::addUnchecked(hash, entry, setAncestors, validFeeEstimate)
addUnchecked(p, hash, entry, setAncestors, validFeeEstimate) ==
  addUncheckedInsert(addUncheckedNotify(p, hash), hash, entry, setAncestors, validFeeEstimate)

\* the usage of the entry alone, without that of its link sets
RemovedUsage_EntryOnly(p, it) == nUsageSize(it)

\* removeUnchecked: what the two "cachedInnerUsage -=" take off, the usage
\* of the entry and of its sets of parents and children
RemovedUsage(p, it) ==
  nUsageSize(it)
  + SetNodeUsage * (Cardinality(p.mapLinks[it].parents) + Cardinality(p.mapLinks[it].children))

\* removeUnchecked that leaves the entry's records in mapNextTx
removeUnchecked_KeepsSpends(p, it, reason) ==
  LET idx == p.mapTx[it].vTxHashesIdx
      n == Len(p.vTxHashes)
      moved == p.vTxHashes[n]
      \* vTxHashes[idx] = back(); back().second->vTxHashesIdx = idx; pop_back()
      vTxHashes == IF n > 1
                   THEN SubSeq([p.vTxHashes EXCEPT ![idx] = moved], 1, n - 1)
                   ELSE << >>
      reindexed == IF n > 1 /\ moved \in DOMAIN p.mapTx
                   THEN [p.mapTx EXCEPT ![moved].vTxHashesIdx = idx]
                   ELSE p.mapTx
  IN [p EXCEPT !.signals = Append(@, NotifyEntryRemoved(it, reason)),
               !.vTxHashes = vTxHashes,
               !.totalTxSize = @ - GetTxSize(it),
               !.cachedInnerUsage = @ - RemovedUsage(p, it),
               !.mapLinks = Drop(@, {it}),
               !.mapTx = Drop(reindexed, {it}),
               !.assertFailed = @ \/ p.mapTx[it].assertFailed]

(***************************************************************************)
(* CTxMemPool::removeUnchecked(it, reason)                                 *)
(***************************************************************************)
removeUnchecked(p, it, reason) ==
  LET idx == p.mapTx[it].vTxHashesIdx
      n == Len(p.vTxHashes)
      moved == p.vTxHashes[n]
      \* vTxHashes[idx] = back(); back().second->vTxHashesIdx = idx; pop_back()
      vTxHashes == IF n > 1
                   THEN SubSeq([p.vTxHashes EXCEPT ![idx] = moved], 1, n - 1)
                   ELSE << >>
      reindexed == IF n > 1 /\ moved \in DOMAIN p.mapTx
                   THEN [p.mapTx EXCEPT ![moved].vTxHashesIdx = idx]
                   ELSE p.mapTx
  IN [p EXCEPT !.signals = Append(@, NotifyEntryRemoved(it, reason)),
               !.mapNextTx = Drop(@, Prevouts(it)),
               !.vTxHashes = vTxHashes,
               !.totalTxSize = @ - GetTxSize(it),
               !.cachedInnerUsage = @ - RemovedUsage(p, it),
               !.mapLinks = Drop(@, {it}),
               !.mapTx = Drop(reindexed, {it}),
               !.assertFailed = @ \/ p.mapTx[it].assertFailed]

\* UpdateChildrenForRemoval left out: the children keep the removed parent
UpdateChildrenForRemoval_Skipped(links, entriesToRemove) == links

\* CTxMemPool::UpdateChildrenForRemoval(it), for every entry of the set:
\* UpdateParent(child, it, false) on each child the links still name
UpdateChildrenForRemoval(links, entriesToRemove) ==
  [h \in DOMAIN links |->
     [links[h] EXCEPT !.parents = @ \ {r \in entriesToRemove : h \in links[r].children}]]

(***************************************************************************)
(* CTxMemPool::UpdateForRemoveFromMempool(entriesToRemove, updateDescendants)*)
(***************************************************************************)
\* the three loops, given the descendants (descOf) and the ancestors (ancOf)
\* of each entry to remove
UpdateForRemoveLoops(p, entriesToRemove, updateDescendants, descOf, ancOf) ==
  LET \* first loop: the ancestor state of the descendants that stay
      above(d) == {r \in entriesToRemove : d \in descOf[r]}
      step1(h, e) ==
        IF updateDescendants
        THEN LET R == above(h) IN
             UpdateAncestorState(e,
               -SumOver(R, [r \in R |-> GetTxSize(r)]),
               -SumOver(R, [r \in R |-> ModFee(p, r)]),
               -Cardinality(R),
               -SumOver(R, [r \in R |-> GetSigOpCost(r)]))
        ELSE e
      \* second loop: CalculateMemPoolAncestors(entry, ..., false), then
      \* UpdateAncestorsOf(false, removeIt, setAncestors)
      below(a) == {r \in entriesToRemove : a \in ancOf[r]}
      step2(h, e) ==
        LET R == below(h) IN
        UpdateDescendantState(e,
          -SumOver(R, [r \in R |-> GetTxSize(r)]),
          -SumOver(R, [r \in R |-> ModFee(p, r)]),
          -Cardinality(R))
      severedChildren(h) == {r \in entriesToRemove : h \in GetMemPoolParents(p, r)}
                            \cap GetMemPoolChildren(p, h)
      links2 == [h \in DOMAIN p.mapLinks |->
                   [p.mapLinks[h] EXCEPT !.children = @ \ severedChildren(h)]]
      \* third loop: UpdateChildrenForRemoval(removeIt)
      severedParents(h) == {r \in entriesToRemove : h \in links2[r].children}
                           \cap links2[h].parents
      links3 == UpdateChildrenForRemoval(links2, entriesToRemove)
      nSevered == SumOver(DOMAIN p.mapLinks,
                    [h \in DOMAIN p.mapLinks |->
                       Cardinality(severedChildren(h)) + Cardinality(severedParents(h))])
  IN [p EXCEPT !.mapTx = [h \in DOMAIN p.mapTx |-> step2(h, step1(h, p.mapTx[h]))],
               !.mapLinks = links3,
               !.cachedInnerUsage = @ - SetNodeUsage * nSevered]

UpdateForRemoveFromMempool(p, entriesToRemove, updateDescendants) ==
  UpdateForRemoveLoops(p, entriesToRemove, updateDescendants,
    [r \in entriesToRemove |-> CalculateDescendants(p, r, {}) \ {r}],
    [r \in entriesToRemove |-> AncestorsNoLimit(p, r, FALSE)])

\* the removeUnchecked loop of RemoveStaged, in the order of the set
RECURSIVE RemoveAll(_, _, _)
RemoveAll(p, stage, reason) ==
  IF stage = {} THEN p
  ELSE LET it == CHOOSE x \in stage : \A y \in stage : x <= y
       IN RemoveAll(removeUnchecked(p, it, reason), stage \ {it}, reason)

\* CTxMemPool::RemoveStaged(stage, updateDescendants, reason)
RemoveStaged(p, stage, updateDescendants, reason) ==
  RemoveAll(UpdateForRemoveFromMempool(p, stage, updateDescendants), stage, reason)


(***************************************************************************)
(* The rolling minimum feerate.  The clock counts half-lives               *)
(* (ROLLING_FEE_HALFLIFE) of the decay, so the exponent of the decay is a  *)
(* whole number and the 10 second hold-off is less than one tick.          *)
(***************************************************************************)
\* GetMinFee without the test of blockSinceLastRollingFeeBump: the rate
\* decays whether or not a block was connected since it was raised
GetMinFee_DecaysAtOnce(p, sizelimit, time) ==
  IF p.rollingMinimumFeeRate = 0
  THEN [rate |-> p.rollingMinimumFeeRate, pool |-> p]
  ELSE IF time > p.lastRollingFeeUpdate
  THEN LET speedup == IF DynamicMemoryUsage(p) < sizelimit \div 4 THEN 4
                      ELSE IF DynamicMemoryUsage(p) < sizelimit \div 2 THEN 2
                      ELSE 1
           decayed == p.rollingMinimumFeeRate
                        \div Pow2((time - p.lastRollingFeeUpdate) * speedup)
       IN IF 2 * decayed < incrementalRelayFee
          THEN [rate |-> 0,
                pool |-> [p EXCEPT !.rollingMinimumFeeRate = 0,
                                   !.lastRollingFeeUpdate = time]]
          ELSE [rate |-> Max(decayed, incrementalRelayFee),
                pool |-> [p EXCEPT !.rollingMinimumFeeRate = decayed,
                                   !.lastRollingFeeUpdate = time]]
  ELSE [rate |-> Max(p.rollingMinimumFeeRate, incrementalRelayFee), pool |-> p]

\* CTxMemPool::GetMinFee(sizelimit): [rate, pool], the pool with the decayed state
GetMinFee(p, sizelimit, time) ==
  IF ~p.blockSinceLastRollingFeeBump \/ p.rollingMinimumFeeRate = 0
  THEN [rate |-> p.rollingMinimumFeeRate, pool |-> p]
  ELSE IF time > p.lastRollingFeeUpdate
  THEN LET speedup == IF DynamicMemoryUsage(p) < sizelimit \div 4 THEN 4
                      ELSE IF DynamicMemoryUsage(p) < sizelimit \div 2 THEN 2
                      ELSE 1
           decayed == p.rollingMinimumFeeRate
                        \div Pow2((time - p.lastRollingFeeUpdate) * speedup)
       IN IF 2 * decayed < incrementalRelayFee
          THEN [rate |-> 0,
                pool |-> [p EXCEPT !.rollingMinimumFeeRate = 0,
                                   !.lastRollingFeeUpdate = time]]
          ELSE [rate |-> Max(decayed, incrementalRelayFee),
                pool |-> [p EXCEPT !.rollingMinimumFeeRate = decayed,
                                   !.lastRollingFeeUpdate = time]]
  ELSE [rate |-> Max(p.rollingMinimumFeeRate, incrementalRelayFee), pool |-> p]

\* the rolling feerate raised without marking it as raised since the last
\* block: it decays as after a block
trackPackageRemoved_KeepsBlockFlag(p, rate) ==
  IF rate > p.rollingMinimumFeeRate THEN [p EXCEPT !.rollingMinimumFeeRate = rate] ELSE p

\* the rate taken whatever the rolling feerate is
trackPackageRemoved_Assigns(p, rate) ==
  [p EXCEPT !.rollingMinimumFeeRate = rate, !.blockSinceLastRollingFeeBump = FALSE]

\* CTxMemPool::trackPackageRemoved(rate)
trackPackageRemoved(p, rate) ==
  IF rate > p.rollingMinimumFeeRate
  THEN [p EXCEPT !.rollingMinimumFeeRate = rate, !.blockSinceLastRollingFeeBump = FALSE]
  ELSE p

(***************************************************************************)
(* The descendant_score index: the entry trimmed first.  Feerates are      *)
(* compared by cross-multiplication; equal feerates are ordered by txid.   *)
(***************************************************************************)
DescendantScoreLess(p, a, b) ==
  LET f1 == p.mapTx[a].nModFeesWithDescendants * p.mapTx[b].nSizeWithDescendants
      f2 == p.mapTx[b].nModFeesWithDescendants * p.mapTx[a].nSizeWithDescendants
  IN IF f1 = f2 THEN a < b ELSE f1 < f2

DescendantScoreBegin(p) ==
  CHOOSE a \in DOMAIN p.mapTx :
    \A b \in (DOMAIN p.mapTx) \ {a} : DescendantScoreLess(p, a, b)

\* the loop condition with >= for >: a pool of exactly sizelimit is trimmed
OverSizeLimit_AtLimit(nUsage, sizelimit) == nUsage >= sizelimit

\* "DynamicMemoryUsage() > sizelimit", the loop condition of TrimToSize
OverSizeLimit(nUsage, sizelimit) == nUsage > sizelimit

\* CTxMemPool::TrimToSize(sizelimit, pvNoSpendsRemaining):
\* [pool, vNoSpendsRemaining]
RECURSIVE TrimLoop(_, _, _)

\* the round without the test "exists(txin.prevout.hash)": every input of a
\* removed transaction is returned
TrimRemoved_AllInputs(p2, stage, sizelimit, vNoSpendsRemaining) ==
  TrimLoop(p2, sizelimit,
           vNoSpendsRemaining \cup {OutPoint(i.hash, i.n) : i \in UNION {Tx(h).vin : h \in stage}})

\* the rest of one round, once RemoveStaged(stage) has left the pool p2: the
\* inputs of the removed transactions that spend nothing of the pool
TrimRemoved(p2, stage, sizelimit, vNoSpendsRemaining) ==
  LET spent == UNION {Tx(h).vin : h \in stage}
      noSpends == {OutPoint(i.hash, i.n) : i \in {j \in spent : ~exists(p2, j.hash)}}
  IN TrimLoop(p2, sizelimit, vNoSpendsRemaining \cup noSpends)

TrimLoop(p, sizelimit, vNoSpendsRemaining) ==
  IF DOMAIN p.mapTx = {} \/ ~OverSizeLimit(DynamicMemoryUsage(p), sizelimit)
  THEN [pool |-> p, vNoSpendsRemaining |-> vNoSpendsRemaining]
  ELSE LET it == DescendantScoreBegin(p)
           removed == CFeeRate(p.mapTx[it].nModFeesWithDescendants,
                               p.mapTx[it].nSizeWithDescendants) + incrementalRelayFee
       IN TrimRemoved(RemoveStaged(trackPackageRemoved(p, removed),
                                   CalculateDescendants(p, it, {}), FALSE, "SIZELIMIT"),
                      CalculateDescendants(p, it, {}), sizelimit, vNoSpendsRemaining)

TrimToSize(p, sizelimit) == TrimLoop(p, sizelimit, {})

\* the test of the entry's time with <= for <
Expired_AtTime(nTime, time) == nTime <= time

\* "it->GetTime() < time", the loop condition over the entry_time index
Expired(nTime, time) == nTime < time

\* CTxMemPool::Expire(time): [pool, n]
Expire(p, time) ==
  LET toremove == {h \in DOMAIN p.mapTx : Expired(p.mapTx[h].nTime, time)}
      stage == CalculateDescendantsAll(p, toremove, {})
  IN [pool |-> RemoveStaged(p, stage, FALSE, "EXPIRY"), n |-> Cardinality(stage)]

\* CTxMemPool::LimitMempoolSize(pool, limit, age)
LimitMempoolSize(p, limit, age, time) ==
  TrimToSize(Expire(p, time - age).pool, limit).pool

(***************************************************************************)
(* Removal.                                                                *)
(***************************************************************************)
\* removeRecursive that does nothing for a transaction not in the pool
removeRecursive_OnlyIfPresent(p, origTx, reason) ==
  IF exists(p, origTx)
  THEN RemoveStaged(p, CalculateDescendantsAll(p, {origTx}, {}), FALSE, reason)
  ELSE p

\* CTxMemPool::removeRecursive(origTx, reason)
removeRecursive(p, origTx, reason) ==
  LET txToRemove ==
        IF exists(p, origTx) THEN {origTx}
        ELSE {p.mapNextTx[o] : o \in Outputs(origTx) \cap DOMAIN p.mapNextTx}
      setAllRemoves == CalculateDescendantsAll(p, txToRemove, {})
  IN RemoveStaged(p, setAllRemoves, FALSE, reason)

\* CTxMemPool::ClearPrioritisation(hash)
ClearPrioritisation(p, hash) == [p EXCEPT !.mapDeltas = Drop(@, {hash})]

\* CTxMemPool::removeConflicts(tx): the loop over tx.vin
RECURSIVE removeConflictsLoop(_, _, _)
removeConflictsLoop(p, tx, outs) ==
  IF outs = << >> THEN p
  ELSE LET o == Head(outs) IN
       removeConflictsLoop(
         IF o \in DOMAIN p.mapNextTx /\ p.mapNextTx[o] # tx
         THEN removeRecursive(ClearPrioritisation(p, p.mapNextTx[o]),
                              p.mapNextTx[o], "CONFLICT")
         ELSE p,
         tx, Tail(outs))

\* the outpoints spent by a transaction, in the order of its inputs
RECURSIVE SeqOfOutpoints(_)
SeqOfOutpoints(S) ==
  IF S = {} THEN << >>
  ELSE LET m == CHOOSE x \in S : \A y \in S : x[1] < y[1] \/ (x[1] = y[1] /\ x[2] <= y[2])
       IN <<m>> \o SeqOfOutpoints(S \ {m})

\* the conflicts of a confirmed transaction left in the pool
removeConflicts_Skipped(p, tx) == p

removeConflicts(p, tx) == removeConflictsLoop(p, tx, SeqOfOutpoints(Prevouts(tx)))

\* CTxMemPool::removeForBlock(vtx, nBlockHeight): the loop over vtx
RECURSIVE removeForBlockLoop(_, _)
removeForBlockLoop(p, vtx) ==
  IF vtx = << >> THEN p
  ELSE LET tx == Head(vtx) IN
       removeForBlockLoop(
         ClearPrioritisation(
           removeConflicts(
             IF exists(p, tx) THEN RemoveStaged(p, {tx}, TRUE, "BLOCK") ELSE p,
             tx),
           tx),
         Tail(vtx))

removeForBlock(p, vtx, time) ==
  [removeForBlockLoop(p, vtx) EXCEPT !.lastRollingFeeUpdate = time,
                                     !.blockSinceLastRollingFeeBump = TRUE]

\* _clear that leaves totalTxSize as it is
clear_KeepsTotalTxSize(p, time) ==
  [p EXCEPT !.mapLinks = << >>, !.mapTx = << >>, !.mapNextTx = << >>,
            !.cachedInnerUsage = 0,
            !.lastRollingFeeUpdate = time,
            !.blockSinceLastRollingFeeBump = FALSE,
            !.rollingMinimumFeeRate = 0]

\* CTxMemPool::_clear()
clear(p, time) ==
  [p EXCEPT !.mapLinks = << >>, !.mapTx = << >>, !.mapNextTx = << >>,
            !.totalTxSize = 0, !.cachedInnerUsage = 0,
            !.lastRollingFeeUpdate = time,
            !.blockSinceLastRollingFeeBump = FALSE,
            !.rollingMinimumFeeRate = 0,
            !.assertFailed = @ \/ \E h \in DOMAIN p.mapTx : p.mapTx[h].assertFailed]

\* CTxMemPool::PrioritiseTransaction(hash, nFeeDelta)
PrioritiseTransaction(p, hash, nFeeDelta) ==
  LET delta == (IF hash \in DOMAIN p.mapDeltas THEN p.mapDeltas[hash] ELSE 0) + nFeeDelta
      p1 == [p EXCEPT !.mapDeltas = Put(@, hash, delta)]
  IN IF exists(p, hash)
     THEN LET setAncestors == AncestorsNoLimit(p1, hash, FALSE)
              setDescendants == CalculateDescendants(p1, hash, {}) \ {hash}
          IN [p1 EXCEPT !.mapTx =
                [h \in DOMAIN p.mapTx |->
                   IF h = hash THEN UpdateFeeDelta(p.mapTx[h], delta)
                   ELSE LET e1 == IF h \in setAncestors
                                  THEN UpdateDescendantState(p.mapTx[h], 0, nFeeDelta, 0)
                                  ELSE p.mapTx[h]
                        IN IF h \in setDescendants
                           THEN UpdateAncestorState(e1, 0, nFeeDelta, 0, 0)
                           ELSE e1]]
     ELSE p1

\* CTxMemPool::ApplyDelta(hash, nFeeDelta)
ApplyDelta(p, hash, nFee) ==
  IF hash \in DOMAIN p.mapDeltas THEN nFee + p.mapDeltas[hash] ELSE nFee


(***************************************************************************)
(* The chain state the pool consults: the UTXO set (pcoinsTip) and the     *)
(* height of the tip (chainActive).                                        *)
(***************************************************************************)
\* CheckFinalTx(tx, flags): IsFinalTx at the height of the next block
CheckFinalTx(h, nHeight) ==
  \/ Tx(h).nLockTime = 0
  \/ Tx(h).nLockTime < nHeight + 1
  \/ \A i \in Tx(h).vin : i.nSequence = SEQUENCE_FINAL

\* CCoinsViewMemPool::GetCoin: the pool's outputs first, then the base view
HaveCoin(p, utxo, o) ==
  IF o[1] \in DOMAIN p.mapTx THEN o[2] < Tx(o[1]).nout ELSE o \in utxo

(***************************************************************************)
(* Admission.  ext names the check of the external validators (script,     *)
(* standardness, witness, sequence locks) that fails for this call, "ok"   *)
(* when none does; "cache-miss" when the candidate's outputs are not in    *)
(* the coins cache.                                                        *)
(***************************************************************************)
Rejected(p, kind, reason) ==
  [pool |-> p, ok |-> FALSE, kind |-> kind, reason |-> reason, missingInputs |-> FALSE,
   fReplacement |-> FALSE, allConflicting |-> {}]

\* the conflict detection: the pool transactions spending an input of tx
DirectConflicts(p, h) == {p.mapNextTx[o] : o \in Prevouts(h) \cap DOMAIN p.mapNextTx}

\* the opt-out as "not every input signals": one final input opts out
ReplacementOptOut_UnlessEveryInput(c, fEnableReplacement) ==
  ~(fEnableReplacement /\ \A i \in Tx(c).vin : i.nSequence <= MAX_BIP125_RBF_SEQUENCE)

\* fReplacementOptOut of one conflicting transaction
ReplacementOptOut(c, fEnableReplacement) ==
  ~(fEnableReplacement /\ \E i \in Tx(c).vin : i.nSequence <= MAX_BIP125_RBF_SEQUENCE)

\* the feerate comparison with < for <=: an equal feerate passes
LowerFeeRate_Strict(p, h, nModifiedFees, setIterConflicting) ==
  \E c \in setIterConflicting :
    CFeeRate(nModifiedFees, GetTxSize(h)) < CFeeRate(ModFee(p, c), GetTxSize(c))

\* the first loop over setConflicts: the replacement must pay a higher
\* feerate than each transaction it directly conflicts with
LowerFeeRate(p, h, nModifiedFees, setIterConflicting) ==
  \E c \in setIterConflicting :
    CFeeRate(nModifiedFees, GetTxSize(h)) <= CFeeRate(ModFee(p, c), GetTxSize(c))

\* the loop over tx.vin left out
AddsUnconfirmed_Omitted(p, h, setConflictsParents) == FALSE

\* the loop over tx.vin: an input that spends an unconfirmed output which
\* no conflicting transaction spent
AddsUnconfirmed(p, h, setConflictsParents) ==
  \E ph \in PrevHashes(h) : ph \notin setConflictsParents /\ exists(p, ph)

\* the fee rules without the one for the replacement's own bandwidth
FeeTooLow_NoRelayFee(h, nModifiedFees, nConflictingFees) ==
  nModifiedFees < nConflictingFees

\* the two fee rules: pay for the fees of what is evicted, and for the
\* replacement's own bandwidth
FeeTooLow(h, nModifiedFees, nConflictingFees) ==
  \/ nModifiedFees < nConflictingFees
  \/ nModifiedFees - nConflictingFees < GetFee(incrementalRelayFee, GetTxSize(h))

\* the bound on the work of a replacement with >= for >: a sum of exactly
\* maxDescendantsToVisit is refused
TooManyReplacements_AtLimit(nConflictingCount) ==
  nConflictingCount >= maxDescendantsToVisit

\* the rejection of a replacement that would evict too many transactions
TooManyRejection ==
  [reason |-> "too many potential replacements", kind |-> "NONSTANDARD",
   allConflicting |-> {}]

\* the else branch of "if (nConflictingCount <= maxDescendantsToVisit)"
TooManyReplacements(nConflictingCount) ==
  ~(nConflictingCount <= maxDescendantsToVisit)

\* the replacement checks: the rejection reason, "" when they pass
ReplacementCheck(p, h, nModifiedFees, setConflicts) ==
  LET setIterConflicting == {c \in setConflicts : exists(p, c)}
      setConflictsParents == UNION {PrevHashes(c) : c \in setIterConflicting}
      nConflictingCount ==
        SumOver(setIterConflicting,
                [c \in setIterConflicting |-> p.mapTx[c].nCountWithDescendants])
      allConflicting == CalculateDescendantsAll(p, setIterConflicting, {})
      nConflictingFees == SumOver(allConflicting, [c \in allConflicting |-> ModFee(p, c)])
  IN IF LowerFeeRate(p, h, nModifiedFees, setIterConflicting)
     THEN [reason |-> "insufficient fee", kind |-> "INSUFFICIENTFEE", allConflicting |-> {}]
     ELSE IF TooManyReplacements(nConflictingCount)
     THEN TooManyRejection
     ELSE IF AddsUnconfirmed(p, h, setConflictsParents)
     THEN [reason |-> "replacement-adds-unconfirmed", kind |-> "NONSTANDARD",
           allConflicting |-> {}]
     ELSE IF FeeTooLow(h, nModifiedFees, nConflictingFees)
     THEN [reason |-> "insufficient fee", kind |-> "INSUFFICIENTFEE", allConflicting |-> {}]
     ELSE [reason |-> "", kind |-> "", allConflicting |-> allConflicting]

\* the pool limited whatever fOverrideMempoolLimit is
LimitUnlessOverride_Always(p, fOverrideMempoolLimit, nTime) ==
  LimitMempoolSize(p, MaxMempool, MempoolExpiry, nTime)

\* LimitMempoolSize(pool, -maxmempool, -mempoolexpiry) unless
\* fOverrideMempoolLimit
LimitUnlessOverride(p, fOverrideMempoolLimit, nTime) ==
  IF fOverrideMempoolLimit THEN p
  ELSE LimitMempoolSize(p, MaxMempool, MempoolExpiry, nTime)

\* the end of the call, the pool limited: "mempool full" when the candidate
\* is no longer there, else TransactionAddedToMempool
Committed(p3, h, allConflicting) ==
  IF ~exists(p3, h)
  THEN [Rejected(p3, "INSUFFICIENTFEE", "mempool full")
          EXCEPT !.fReplacement = allConflicting # {},
                 !.allConflicting = allConflicting]
  ELSE [pool |-> [p3 EXCEPT !.signals = Append(@, TransactionAddedToMempool(h))],
        ok |-> TRUE, kind |-> "", reason |-> "", missingInputs |-> FALSE,
        fReplacement |-> allConflicting # {}, allConflicting |-> allConflicting]

\* "bool validForFeeEstimation = false;"
validForFeeEstimation == FALSE

\* CTxMemPool::HasNoInputsOf(tx)
HasNoInputsOf(p, h) == \A i \in Tx(h).vin : ~exists(p, i.hash)

\* the commit with addUnchecked before the RemoveStaged of the conflicts
Commit_AddsFirst(p, h, nFees, nAcceptTime, setAncestors, allConflicting, fOverrideMempoolLimit, nTime) ==
  Committed(
    LimitUnlessOverride(
      RemoveStaged(addUnchecked(p, h, NewEntry(h, nFees, nAcceptTime), setAncestors,
                                validForFeeEstimation),
                   allConflicting, FALSE, "REPLACED"),
      fOverrideMempoolLimit, nTime),
    h, allConflicting)

\* the commit: RemoveStaged of the conflicts, addUnchecked, LimitMempoolSize
Commit(p, h, nFees, nAcceptTime, setAncestors, allConflicting, fOverrideMempoolLimit, nTime) ==
  Committed(
    LimitUnlessOverride(
      addUnchecked(RemoveStaged(p, allConflicting, FALSE, "REPLACED"),
                   h, NewEntry(h, nFees, nAcceptTime), setAncestors,
                   validForFeeEstimation),
      fOverrideMempoolLimit, nTime),
    h, allConflicting)

\* The script verification flags of the two script checks, and those of the
\* current tip, each a name for a set of flags: scriptVerifyFlags are the
\* standard flags (or -promiscuousmempoolflags), currentBlockScriptVerifyFlags
\* is "unsigned int currentBlockScriptVerifyFlags = 0;", and
\* GetBlockScriptFlags is GetBlockScriptFlags(chainActive.Tip(), ...) of the
\* assignment the source has commented out.
scriptVerifyFlags == "standard"
currentBlockScriptVerifyFlags == "none"
GetBlockScriptFlags == "tip"

\* CheckInputs(tx, state, view, true, flags, ...): what the scripts of the
\* candidate do under the flags is an input of the call.  "script-fail"
\* fails under every flags, "tip-flags-fail" passes under scriptVerifyFlags
\* only, "tip-only-fail" fails under the flags of the tip only.
CheckInputs(ext, flags) ==
  /\ ext # "script-fail"
  /\ ext = "tip-flags-fail" => flags = scriptVerifyFlags
  /\ ext = "tip-only-fail" => flags # GetBlockScriptFlags

\* the script checks with the check against the tip's script flags made
\* after the conflicts are removed
CheckInputsAndCommit_LateTipCheck(p, h, a, setAncestors, allConflicting) ==
  IF ~CheckInputs(a.ext, scriptVerifyFlags)
  THEN Rejected(p, "INVALID", "mandatory-script-verify-flag-failed")
  ELSE IF ~CheckInputs(a.ext, currentBlockScriptVerifyFlags)
  THEN Rejected(RemoveStaged(p, allConflicting, FALSE, "REPLACED"),
                "INVALID", "tip-script-verify-flag-failed")
  ELSE Commit(p, h, Tx(h).nFee, a.nAcceptTime, setAncestors, allConflicting,
              a.fOverrideMempoolLimit, a.nTime)

\* CheckInputs with scriptVerifyFlags, CheckInputsFromMempoolAndCache with
\* currentBlockScriptVerifyFlags, then the commit
CheckInputsAndCommit(p, h, a, setAncestors, allConflicting) ==
  IF ~CheckInputs(a.ext, scriptVerifyFlags)
  THEN Rejected(p, "INVALID", "mandatory-script-verify-flag-failed")
  ELSE IF ~CheckInputs(a.ext, currentBlockScriptVerifyFlags)
  THEN Rejected(p, "INVALID", "tip-script-verify-flag-failed")
  ELSE Commit(p, h, Tx(h).nFee, a.nAcceptTime, setAncestors, allConflicting,
              a.fOverrideMempoolLimit, a.nTime)

\* the outcome of the replacement checks (repl), then the script checks
ReplacementChecked(p, h, a, setAncestors, repl) ==
  IF repl.reason # ""
  THEN Rejected(p, repl.kind, repl.reason)
  ELSE CheckInputsAndCommit(p, h, a, setAncestors, repl.allConflicting)

\* the check for a candidate that spends what it replaces, left out
SpendsConflicting_Omitted(setAncestors, setConflicts) == FALSE

\* the loop over setAncestors: an ancestor that is in setConflicts
SpendsConflicting(setAncestors, setConflicts) ==
  \E hashAncestor \in setAncestors : hashAncestor \in setConflicts

\* the chain limits (anc, of CalculateMemPoolAncestors), the candidate that
\* spends a transaction it conflicts with, the replacement checks when
\* fReplacementTransaction
ChainLimitChecks(p, h, a, nModifiedFees, anc) ==
  IF ~anc.ok
  THEN Rejected(p, "NONSTANDARD", "too-long-mempool-chain")
  ELSE IF SpendsConflicting(anc.setAncestors, DirectConflicts(p, h))
  THEN Rejected(p, "INVALID", "bad-txns-spends-conflicting-tx")
  ELSE ReplacementChecked(p, h, a, anc.setAncestors,
         IF DirectConflicts(p, h) # {}
         THEN ReplacementCheck(p, h, nModifiedFees, DirectConflicts(p, h))
         ELSE [reason |-> "", kind |-> "", allConflicting |-> {}])

\* the fee checks, minFee the result of GetMinFee: its pool carries the
\* decayed rolling fee
FeeChecks(minFee, h, a, nModifiedFees) ==
  LET p == minFee.pool
      nSize == GetTxSize(h)
      nFees == Tx(h).nFee
      mempoolRejectFee == GetFee(minFee.rate, nSize)
  IN IF mempoolRejectFee > 0 /\ nModifiedFees < mempoolRejectFee
     THEN Rejected(p, "INSUFFICIENTFEE", "mempool min fee not met")
     ELSE IF a.fLimitFree /\ nModifiedFees < GetFee(minRelayTxFee, nSize)
     THEN Rejected(p, "INSUFFICIENTFEE", "min relay fee not met")
     ELSE IF a.nAbsurdFee # 0 /\ nFees > a.nAbsurdFee
     THEN Rejected(p, "HIGHFEE", "absurdly-high-fee")
     ELSE ChainLimitChecks(p, h, a, nModifiedFees,
            CalculateMemPoolAncestors(p, h, nLimitAncestors, nLimitAncestorSize,
                                      nLimitDescendants, nLimitDescendantSize, TRUE))

\* the checks from the fee checks on
AcceptFromFees(p0, h, a) ==
  FeeChecks(GetMinFee(p0, MaxMempool, a.nTime), h, a, ApplyDelta(p0, h, Tx(h).nFee))

\* the test for the candidate's own txid left out
AlreadyInMempool_Omitted(p, h) == FALSE

\* "if (pool.exists(hash))"
AlreadyInMempool(p, h) == exists(p, h)

\* a missing input reported as an invalid transaction
MissingInputs_AsInvalid(p) == Rejected(p, "INVALID", "bad-txns-inputs-missingorspent")

\* *pfMissingInputs = true; return false, with no state.Invalid
MissingInputs(p) == [Rejected(p, "", "") EXCEPT !.missingInputs = TRUE]

\* CTxMemPool::AcceptToMemoryPoolWorker
AcceptToMemoryPoolWorker(p, h, a) ==
  IF a.ext = "bad-txns" THEN Rejected(p, "INVALID", "bad-txns")
  ELSE IF a.ext = "coinbase" THEN Rejected(p, "INVALID", "coinbase")
  ELSE IF a.ext = "no-witness-yet" THEN Rejected(p, "NONSTANDARD", "no-witness-yet")
  ELSE IF a.ext = "nonstandard" THEN Rejected(p, "NONSTANDARD", "nonstandard")
  ELSE IF ~CheckFinalTx(h, a.nHeight) THEN Rejected(p, "NONSTANDARD", "non-final")
  ELSE IF AlreadyInMempool(p, h) THEN Rejected(p, "DUPLICATE", "txn-already-in-mempool")
  ELSE IF \E c \in DirectConflicts(p, h) : ReplacementOptOut(c, a.fEnableReplacement)
  THEN Rejected(p, "DUPLICATE", "txn-mempool-conflict")
  ELSE IF \E o \in Prevouts(h) : ~HaveCoin(p, a.utxo, o)
  THEN IF a.ext # "cache-miss" /\ Outputs(h) \cap a.utxo # {}
       THEN Rejected(p, "DUPLICATE", "txn-already-known")
       ELSE MissingInputs(p)
  ELSE IF a.ext = "non-BIP68-final" THEN Rejected(p, "NONSTANDARD", "non-BIP68-final")
  ELSE IF a.ext = "bad-txns-nonstandard-inputs"
  THEN Rejected(p, "NONSTANDARD", "bad-txns-nonstandard-inputs")
  ELSE IF a.ext = "bad-witness-nonstandard"
  THEN Rejected(p, "NONSTANDARD", "bad-witness-nonstandard")
  ELSE IF a.ext = "bad-txns-too-many-sigops"
  THEN Rejected(p, "NONSTANDARD", "bad-txns-too-many-sigops")
  ELSE AcceptFromFees(p, h, a)


(***************************************************************************)
(* Reorganisation.                                                         *)
(***************************************************************************)
\* CTxMemPool::UpdateForDescendants: the work list of the first loop
RECURSIVE UpdateForDescendantsStage(_, _, _, _)
UpdateForDescendantsStage(p, stageEntries, setAllDescendants, cachedDescendants) ==
  IF stageEntries = {} THEN setAllDescendants
  ELSE LET cit == CHOOSE x \in stageEntries : \A y \in stageEntries : x <= y
           setChildren == GetMemPoolChildren(p, cit)
           cached == setChildren \cap DOMAIN cachedDescendants
           set2 == setAllDescendants \cup {cit}
                     \cup UNION {cachedDescendants[c] : c \in cached}
           next == {c \in setChildren \ cached : c \notin set2}
       IN UpdateForDescendantsStage(p, (stageEntries \ {cit}) \cup next, set2,
                                    cachedDescendants)

\* CTxMemPool::UpdateForDescendants(updateIt, cachedDescendants, setExclude):
\* [pool, cachedDescendants]; counted, the descendants outside setExclude
UpdateForDescendantsOf(p, updateIt, cachedDescendants, counted) ==
  LET modifySize == SumOver(counted, [c \in counted |-> GetTxSize(c)])
      modifyFee == SumOver(counted, [c \in counted |-> ModFee(p, c)])
      modifyCount == Cardinality(counted)
      mapTx1 == [h \in DOMAIN p.mapTx |->
                   IF h \in counted
                   THEN UpdateAncestorState(p.mapTx[h], GetTxSize(updateIt),
                                            ModFee(p, updateIt), 1, GetSigOpCost(updateIt))
                   ELSE p.mapTx[h]]
      mapTx2 == [mapTx1 EXCEPT ![updateIt] =
                   UpdateDescendantState(@, modifySize, modifyFee, modifyCount)]
  IN [pool |-> [p EXCEPT !.mapTx = mapTx2],
      cachedDescendants |->
        IF counted = {} THEN cachedDescendants
        ELSE Put(cachedDescendants, updateIt,
                 (IF updateIt \in DOMAIN cachedDescendants
                  THEN cachedDescendants[updateIt] ELSE {}) \cup counted)]

\* UpdateForDescendants that counts the descendants of setExclude as well
UpdateForDescendants_NoExclude(p, updateIt, cachedDescendants, setExclude) ==
  UpdateForDescendantsOf(p, updateIt, cachedDescendants,
    UpdateForDescendantsStage(p, GetMemPoolChildren(p, updateIt), {}, cachedDescendants))

UpdateForDescendants(p, updateIt, cachedDescendants, setExclude) ==
  UpdateForDescendantsOf(p, updateIt, cachedDescendants,
    {cit \in UpdateForDescendantsStage(p, GetMemPoolChildren(p, updateIt), {},
                                       cachedDescendants) : cit \notin setExclude})

\* CTxMemPool::UpdateTransactionsFromBlock: the loop, over the reversed vector
RECURSIVE UpdateTransactionsFromBlockLoop(_, _, _, _)

\* the rest of the loop after UpdateForDescendants returned r
UpdateTransactionsFromBlockRest(r, rev, setAlreadyIncluded) ==
  UpdateTransactionsFromBlockLoop(r.pool, Tail(rev), r.cachedDescendants,
                                  setAlreadyIncluded)

UpdateTransactionsFromBlockLoop(p, rev, cache, setAlreadyIncluded) ==
  IF rev = << >> THEN p
  ELSE LET hash == Head(rev) IN
       IF ~exists(p, hash)
       THEN UpdateTransactionsFromBlockLoop(p, Tail(rev), cache, setAlreadyIncluded)
       ELSE LET setChildren == {p.mapNextTx[o] : o \in {x \in DOMAIN p.mapNextTx : x[1] = hash}}
                toLink == {c \in setChildren : c \notin setAlreadyIncluded /\ exists(p, c)}
                newChild == {c \in toLink : c \notin p.mapLinks[hash].children}
                newParent == {c \in toLink : hash \notin p.mapLinks[c].parents}
                links == [h \in DOMAIN p.mapLinks |->
                            IF h = hash
                            THEN [p.mapLinks[h] EXCEPT !.children = @ \cup toLink]
                            ELSE IF h \in toLink
                            THEN [p.mapLinks[h] EXCEPT !.parents = @ \cup {hash}]
                            ELSE p.mapLinks[h]]
                p1 == [p EXCEPT !.mapLinks = links,
                                !.cachedInnerUsage =
                                   @ + SetNodeUsage * (Cardinality(newChild)
                                                       + Cardinality(newParent))]
            IN UpdateTransactionsFromBlockRest(
                 UpdateForDescendants(p1, hash, cache, setAlreadyIncluded),
                 rev, setAlreadyIncluded)

RECURSIVE Reverse(_)
Reverse(q) == IF q = << >> THEN << >> ELSE Append(Reverse(Tail(q)), Head(q))

SeqToSet(q) == {q[i] : i \in 1..Len(q)}

\* CTxMemPool::UpdateTransactionsFromBlock(vHashesToUpdate)
UpdateTransactionsFromBlock(p, vHashesToUpdate) ==
  UpdateTransactionsFromBlockLoop(p, Reverse(vHashesToUpdate), << >>,
                                  SeqToSet(vHashesToUpdate))

\* CTxMemPool::removeForReorg(pcoins, nMemPoolHeight, flags); no transaction
\* of the model spends a coinbase or carries a relative lock
removeForReorg(p, nTipHeight) ==
  LET txToRemove == {h \in DOMAIN p.mapTx : ~CheckFinalTx(h, nTipHeight)}
      setAllRemoves == CalculateDescendantsAll(p, txToRemove, {})
  IN RemoveStaged(p, setAllRemoves, FALSE, "REORG")

\* the arguments of the re-admission of a disconnected transaction
ReorgArgs(h, bad, utxo, nHeight, nTime) ==
  [fLimitFree |-> FALSE, fOverrideMempoolLimit |-> TRUE, nAbsurdFee |-> 0,
   fEnableReplacement |-> TRUE,
   ext |-> IF h \in bad THEN "nonstandard" ELSE "ok",
   utxo |-> utxo, nHeight |-> nHeight, nAcceptTime |-> nTime, nTime |-> nTime]

\* CTxMemPool::UpdateMempoolForReorg: the loop over the disconnected
\* transactions, earliest first: [pool, vHashUpdate]
RECURSIVE UpdateMempoolForReorgLoop(_, _, _, _, _, _, _, _)

\* one disconnected transaction, r the outcome of its AcceptToMemoryPool
UpdateMempoolForReorgStep(r, queuedTx, vHashUpdate, fAddToMempool, bad, utxo, nHeight, nTime) ==
  IF ~r.ok
  THEN UpdateMempoolForReorgLoop(
         removeRecursive(r.pool, Head(queuedTx), "REORG"),
         Tail(queuedTx), vHashUpdate, fAddToMempool, bad, utxo, nHeight, nTime)
  ELSE UpdateMempoolForReorgLoop(
         r.pool, Tail(queuedTx),
         IF exists(r.pool, Head(queuedTx))
         THEN Append(vHashUpdate, Head(queuedTx)) ELSE vHashUpdate,
         fAddToMempool, bad, utxo, nHeight, nTime)

UpdateMempoolForReorgLoop(p, queuedTx, vHashUpdate, fAddToMempool, bad, utxo, nHeight, nTime) ==
  IF queuedTx = << >> THEN [pool |-> p, vHashUpdate |-> vHashUpdate]
  ELSE IF ~fAddToMempool
  THEN UpdateMempoolForReorgLoop(
         removeRecursive(p, Head(queuedTx), "REORG"),
         Tail(queuedTx), vHashUpdate, fAddToMempool, bad, utxo, nHeight, nTime)
  ELSE UpdateMempoolForReorgStep(
         AcceptToMemoryPoolWorker(p, Head(queuedTx),
                                  ReorgArgs(Head(queuedTx), bad, utxo, nHeight, nTime)),
         queuedTx, vHashUpdate, fAddToMempool, bad, utxo, nHeight, nTime)

\* after the loop (r): UpdateTransactionsFromBlock(vHashUpdate),
\* removeForReorg, LimitMempoolSize
UpdateMempoolForReorgEnd(r, nHeight, nTime) ==
  LimitMempoolSize(
    removeForReorg(UpdateTransactionsFromBlock(r.pool, r.vHashUpdate), nHeight),
    MaxMempool, MempoolExpiry, nTime)

UpdateMempoolForReorg(p, queuedTx, fAddToMempool, bad, utxo, nHeight, nTime) ==
  UpdateMempoolForReorgEnd(
    UpdateMempoolForReorgLoop(p, queuedTx, << >>, fAddToMempool, bad, utxo,
                              nHeight, nTime),
    nHeight, nTime)


(***************************************************************************)
(* The state: the pool, the chain it follows, the clock, and the outcome   *)
(* of the last operation.                                                  *)
(***************************************************************************)
VARIABLES pool, utxo, chain, now, nPrio, nOps, result, rbf, adm, cs, note

\* the variables of the specification that follows an admission step by
\* step, with the lock cs and the notifications as they are delivered
lockVars == <<adm, cs, note>>

vars == <<pool, utxo, chain, now, nPrio, nOps, result, rbf, adm, cs, note>>

\* one more operation on the pool
Op == nOps < MaxOps /\ nOps' = nOps + 1

\* the outcome of the last call of AcceptToMemoryPool; NoCall after any
\* other operation
Outcome(r) ==
  [ok |-> r.ok, kind |-> r.kind, reason |-> r.reason, missingInputs |-> r.missingInputs]

NoCall == [ok |-> FALSE, kind |-> "", reason |-> "none", missingInputs |-> FALSE]

Begin(p) == [p EXCEPT !.signals = << >>, !.estimator = << >>]

\* rbf is the loop over setConflicts of a replacement, for the
\* specification that follows that loop alone; idle in this one
NoReplacement ==
  [setConflicts |-> << >>, todo |-> << >>, nConflictingCount |-> 0, pc |-> "idle",
   kind |-> "", reason |-> ""]

\* the thread that validates is in no call of AcceptToMemoryPoolWorker
NoAdmission ==
  [pc |-> "idle", hash |-> 0, a |-> << >>, setAncestors |-> {}, allConflicting |-> {},
   nModifiedFees |-> 0]

Init ==
  /\ adm = NoAdmission
  /\ cs = "free"
  /\ note = << >>
  /\ rbf = NoReplacement
  /\ pool = EmptyPool(0)
  /\ utxo = GenesisCoins
  /\ chain = << >>
  /\ now = 0
  /\ nPrio = 0
  /\ nOps = 0
  /\ result = NoCall

\* the calls of AcceptToMemoryPool the callers make
ExtFailures == {"bad-txns", "cache-miss", "script-fail", "tip-flags-fail"}

Call(fLimitFree, fOverride, nAbsurdFee, fEnableReplacement, ext) ==
  [fLimitFree |-> fLimitFree, fOverrideMempoolLimit |-> fOverride,
   nAbsurdFee |-> nAbsurdFee, fEnableReplacement |-> fEnableReplacement, ext |-> ext,
   utxo |-> utxo, nHeight |-> Len(chain), nAcceptTime |-> now, nTime |-> now]

Calls ==
  {Call(FALSE, TRUE, 0, TRUE, "ok"), Call(TRUE, FALSE, AbsurdFee, TRUE, "ok"),
   Call(FALSE, FALSE, 0, FALSE, "ok")}
  \cup {Call(FALSE, FALSE, 0, TRUE, ext) : ext \in ExtFailures}
  \cup {Call(FALSE, TRUE, 0, TRUE, "tip-only-fail")}

\* AcceptToMemoryPool(pool, state, tx, fLimitFree, ...)
AcceptToMemoryPool ==
  \E h \in TxIds, a \in Calls :
    \E r \in {AcceptToMemoryPoolWorker(Begin(pool), h, a)} :
    /\ Op
    /\ pool' = r.pool
    /\ result' = Outcome(r)
    /\ UNCHANGED <<lockVars, rbf, utxo, chain, now, nPrio>>

\* removeRecursive(tx, reason), as the wallet and the validation code call it
RemoveRecursive ==
  \E h \in TxIds :
    /\ Op
    /\ pool' = removeRecursive(Begin(pool), h, "MANUAL")
    /\ result' = NoCall
    /\ UNCHANGED <<lockVars, rbf, utxo, chain, now, nPrio>>

PrioIds == {2}

Prioritise ==
  \E h \in PrioIds, d \in {FeeDelta, -FeeDelta} :
    /\ Op
    /\ nPrio < MaxPrio
    /\ nPrio' = nPrio + 1
    /\ pool' = PrioritiseTransaction(Begin(pool), h, d)
    /\ result' = NoCall
    /\ UNCHANGED <<lockVars, rbf, utxo, chain, now>>

ExpireOp ==
  \E t \in 1..(now + 1) :
    /\ Op
    /\ pool' = Expire(Begin(pool), t).pool
    /\ result' = NoCall
    /\ UNCHANGED <<lockVars, rbf, utxo, chain, now, nPrio>>

TrimSizes == {MaxMempool \div 2, MaxMempool}

TrimOp ==
  \E limit \in TrimSizes :
    /\ Op
    /\ pool' = TrimToSize(Begin(pool), limit).pool
    /\ result' = NoCall
    /\ UNCHANGED <<lockVars, rbf, utxo, chain, now, nPrio>>

ClearOp ==
  /\ Op
  /\ pool' = clear(Begin(pool), now)
  /\ result' = NoCall
  /\ UNCHANGED <<lockVars, rbf, utxo, chain, now, nPrio>>

Tick ==
  /\ now < MaxTime
  /\ now' = now + 1
  /\ UNCHANGED <<lockVars, rbf, pool, utxo, chain, nPrio, nOps, result>>

(***************************************************************************)
(* Blocks.  A block holds at most MaxBlockTxs of the transactions, each    *)
(* spending coins of the UTXO set as the ones before it left it.           *)
(***************************************************************************)
Spend(coins, h) == (coins \ Prevouts(h)) \cup Outputs(h)
Unspend(coins, h) == (coins \ Outputs(h)) \cup Prevouts(h)

RECURSIVE SpendAll(_, _)
SpendAll(coins, vtx) ==
  IF vtx = << >> THEN coins ELSE SpendAll(Spend(coins, Head(vtx)), Tail(vtx))

RECURSIVE UnspendAll(_, _)
UnspendAll(coins, vtx) ==
  IF vtx = << >> THEN coins
  ELSE Unspend(UnspendAll(coins, Tail(vtx)), Head(vtx))

Minable(coins, h, nHeight) == Prevouts(h) \subseteq coins /\ CheckFinalTx(h, nHeight)

\* the blocks of exactly n transactions that can be connected
RECURSIVE BlocksOfLen(_, _, _)
BlocksOfLen(coins, nHeight, n) ==
  IF n = 0 THEN {<< >>}
  ELSE UNION {{<<h>> \o q : q \in BlocksOfLen(Spend(coins, h), nHeight, n - 1)} :
                h \in {x \in TxIds : Minable(coins, x, nHeight)}}

Blocks(coins, nHeight) == UNION {BlocksOfLen(coins, nHeight, n) : n \in 0..MaxBlockTxs}

\* ConnectTip: the block's coins are spent, then removeForBlock(vtx, height)
ConnectBlock ==
  \E vtx \in Blocks(utxo, Len(chain)) :
    /\ Op
    /\ Len(chain) < MaxHeight
    /\ utxo' = SpendAll(utxo, vtx)
    /\ chain' = Append(chain, vtx)
    /\ pool' = removeForBlock(Begin(pool), vtx, now)
    /\ result' = NoCall
    /\ UNCHANGED <<lockVars, rbf, now, nPrio>>

\* DisconnectTip, then UpdateMempoolForReorg(disconnectpool, fAddToMempool);
\* bad: the disconnected transactions the external validators now refuse
DisconnectBlock ==
  \E fAddToMempool \in BOOLEAN :
    /\ Op
    /\ chain # << >>
    /\ LET vtx == chain[Len(chain)]
           coins == UnspendAll(utxo, vtx)
       IN \E bad \in SUBSET SeqToSet(vtx) :
            /\ utxo' = coins
            /\ chain' = SubSeq(chain, 1, Len(chain) - 1)
            /\ pool' = UpdateMempoolForReorg(Begin(pool), vtx, fAddToMempool, bad, coins,
                                             Len(chain) - 1, now)
            /\ result' = NoCall
    /\ UNCHANGED <<lockVars, rbf, now, nPrio>>

Next ==
  \/ AcceptToMemoryPool
  \/ RemoveRecursive
  \/ Prioritise
  \/ ExpireOp
  \/ TrimOp
  \/ ClearOp
  \/ Tick
  \/ ConnectBlock
  \/ DisconnectBlock

Spec == Init /\ [][Next]_vars

(***************************************************************************)
(* The loop over setConflicts of a replacement, alone.  A conflicting      *)
(* entry is given by what the loop reads of it: its nCountWithDescendants  *)
(* (at most the default -limitdescendantcount, 25) and whether the         *)
(* candidate's feerate is not above its own.                               *)
(***************************************************************************)
DescendantCounts == {1, 24, 25}

Conflicting == [nCountWithDescendants : DescendantCounts, fLowerFeeRate : BOOLEAN]

ConflictSeqs == UNION {[1..n -> Conflicting] : n \in 1..MaxConflicts}

ReplacementInit ==
  /\ rbf \in {[setConflicts |-> q, todo |-> q, nConflictingCount |-> 0, pc |-> "loop",
               kind |-> "", reason |-> ""] : q \in ConflictSeqs}
  /\ adm = NoAdmission
  /\ cs = "free"
  /\ note = << >>
  /\ pool = EmptyPool(0)
  /\ utxo = GenesisCoins
  /\ chain = << >>
  /\ now = 0
  /\ nPrio = 0
  /\ nOps = 0
  /\ result = NoCall

\* one round of the loop: the feerate comparison, then
\* nConflictingCount += mi->GetCountWithDescendants()
VisitConflicting ==
  /\ rbf.pc = "loop" /\ rbf.todo # << >>
  /\ rbf' = IF Head(rbf.todo).fLowerFeeRate
            THEN [rbf EXCEPT !.pc = "rejected", !.kind = "INSUFFICIENTFEE",
                             !.reason = "insufficient fee"]
            ELSE [rbf EXCEPT !.todo = Tail(@),
                             !.nConflictingCount = @ + Head(rbf.todo).nCountWithDescendants]
  /\ UNCHANGED <<lockVars, pool, utxo, chain, now, nPrio, nOps, result>>

\* after the loop: the set to evict is computed unless there are too many
CheckConflictingCount ==
  /\ rbf.pc = "loop" /\ rbf.todo = << >>
  /\ rbf' = IF TooManyReplacements(rbf.nConflictingCount)
            THEN [rbf EXCEPT !.pc = "rejected", !.kind = TooManyRejection.kind,
                             !.reason = TooManyRejection.reason]
            ELSE [rbf EXCEPT !.pc = "evict"]
  /\ UNCHANGED <<lockVars, pool, utxo, chain, now, nPrio, nOps, result>>

ReplacementNext == VisitConflicting \/ CheckConflictingCount

ReplacementSpec == ReplacementInit /\ [][ReplacementNext]_vars

(***************************************************************************)
(* The properties.  What an entry's aggregates, links and spends must be   *)
(* is derived here from the transactions themselves (the outpoints their   *)
(* inputs spend), never from the pool's own bookkeeping.                   *)
(***************************************************************************)
InPool == DOMAIN pool.mapTx

\* the members of S one of whose outputs an input of h spends
ParentsIn(S, h) == {g \in S : Prevouts(h) \cap Outputs(g) # {}}

\* the members of S that have an input spending an output of h
ChildrenIn(S, h) == {c \in S : Prevouts(c) \cap Outputs(h) # {}}

RECURSIVE UpClosure(_, _, _)
UpClosure(S, W, n) ==
  IF n = 0 THEN W ELSE UpClosure(S, W \cup UNION {ParentsIn(S, x) : x \in W}, n - 1)

RECURSIVE DownClosure(_, _, _)
DownClosure(S, W, n) ==
  IF n = 0 THEN W ELSE DownClosure(S, W \cup UNION {ChildrenIn(S, x) : x \in W}, n - 1)

\* h and its strict ancestors (descendants) among S
WithAncestors(S, h) == UpClosure(S, {h}, Cardinality(S))
WithDescendants(S, W) == DownClosure(S, W, Cardinality(S))

\* the modified fee of a pool entry
ModifiedFee(h) == pool.mapTx[h].nFee + pool.mapTx[h].feeDelta

SumSize(S) == SumOver(S, [x \in S |-> Tx(x).size])
SumModFee(S) == SumOver(S, [x \in S |-> ModifiedFee(x)])
SumSigOps(S) == SumOver(S, [x \in S |-> Tx(x).sigOpCost])

Removed(sig, h, reason) == \E i \in 1..Len(sig) : sig[i] = NotifyEntryRemoved(h, reason)

\* C1: after every completed operation, the ancestor aggregates of every
\* entry are exact: the count is one more than the number of strict in-pool
\* ancestors, and the size, the modified fees and the sigop cost are the
\* sums over the entry and its strict ancestors.
C1_AncestorAggregatesExact ==
  \A h \in InPool :
    LET anc == WithAncestors(InPool, h)
        e == pool.mapTx[h]
    IN /\ e.nCountWithAncestors = 1 + Cardinality(anc \ {h})
       /\ e.nSizeWithAncestors = SumSize(anc)
       /\ e.nModFeesWithAncestors = SumModFee(anc)
       /\ e.nSigOpCostWithAncestors = SumSigOps(anc)

\* an entry with two strict ancestors, one of them prioritised, is left in
\* the pool by an operation that was not an admission
C1_Witness ==
  /\ result = NoCall
  /\ \E h \in InPool :
       /\ pool.mapTx[h].nCountWithAncestors = 3
       /\ \E g \in WithAncestors(InPool, h) \ {h} : pool.mapTx[g].feeDelta # 0

\* C2: after every completed operation, the descendant aggregates of every
\* entry are exact: count, size and modified fees over the entry and its
\* strict in-pool descendants; so the size is at least the entry's own plus
\* that of its direct children.
C2_DescendantAggregatesExact ==
  \A h \in InPool :
    LET desc == WithDescendants(InPool, {h})
        e == pool.mapTx[h]
    IN /\ e.nCountWithDescendants = Cardinality(desc)
       /\ e.nSizeWithDescendants = SumSize(desc)
       /\ e.nModFeesWithDescendants = ModifiedFee(h) + SumModFee(desc \ {h})
       /\ e.nSizeWithDescendants >= Tx(h).size + SumSize(ChildrenIn(InPool, h))

\* an entry keeps a descendant after the operation removed another of its
\* descendants
C2_Witness ==
  \E h \in InPool :
    /\ pool.mapTx[h].nCountWithDescendants >= 2
    /\ \E d \in TxIds \ InPool :
         /\ ParentsIn(InPool, d) # {}
         /\ h \in WithAncestors(InPool \cup {d}, d)
         /\ \E i \in 1..Len(pool.signals) :
              pool.signals[i].kind = "EntryRemoved" /\ pool.signals[i].tx = d

\* C3: after every completed operation, the links agree with the
\* transactions: the parents of an entry are the pool entries an output of
\* which it spends, its children the pool entries that spend an output of it.
C3_LinksAgreeWithTransactions ==
  /\ DOMAIN pool.mapLinks = InPool
  /\ \A h \in InPool :
       /\ pool.mapLinks[h].parents = ParentsIn(InPool, h)
       /\ pool.mapLinks[h].children = ChildrenIn(InPool, h)
  /\ \A g, h \in InPool : g \in pool.mapLinks[h].parents <=> h \in pool.mapLinks[g].children

\* a block confirmed a parent and left its child in the pool, or a
\* disconnected block gave an entry of the pool its parent back
C3_Witness ==
  /\ result = NoCall
  /\ \/ \E i \in 1..Len(pool.signals) :
          /\ pool.signals[i].kind = "EntryRemoved" /\ pool.signals[i].reason = "BLOCK"
          /\ \E h \in InPool : pool.signals[i].tx \in PrevHashes(h)
     \/ \E i \in 1..Len(pool.signals) :
          /\ pool.signals[i].kind = "EntryAdded"
          /\ \E h \in InPool : pool.signals[i].tx \in pool.mapLinks[h].parents
                               /\ ~(\E j \in 1..Len(pool.signals) :
                                      pool.signals[j] = NotifyEntryAdded(h))

\* C4: after every completed operation, mapNextTx maps an outpoint to an
\* entry exactly when the entry is in the pool and has an input spending
\* it; no outpoint is spent by two entries, no record names a removed entry.
C4_SpendIndexExact ==
  /\ \A o \in DOMAIN pool.mapNextTx :
       pool.mapNextTx[o] \in InPool /\ o \in Prevouts(pool.mapNextTx[o])
  /\ \A h \in InPool : \A o \in Prevouts(h) :
       o \in DOMAIN pool.mapNextTx /\ pool.mapNextTx[o] = h
  /\ \A g, h \in InPool : g # h => Prevouts(g) \cap Prevouts(h) = {}

\* a replacement took over the outpoint its conflict spent
C4_Witness ==
  \E o \in DOMAIN pool.mapNextTx :
    \E c \in TxIds \ InPool :
      /\ o \in Prevouts(c)
      /\ Removed(pool.signals, c, "REPLACED")

(***************************************************************************)
(* Admission.  Admit(h, a) is the outcome of the call a for candidate h in *)
(* the current state; the properties hold of every call a caller can make  *)
(* in every reachable state.                                               *)
(***************************************************************************)
Admit(h, a) == AcceptToMemoryPoolWorker(Begin(pool), h, a)

\* the pool transactions that spend an outpoint the candidate spends
ConflictsOf(h) == {c \in InPool \ {h} : Prevouts(c) \cap Prevouts(h) # {}}

\* the direct conflicts and their in-pool descendants
EvictedBy(h) == WithDescendants(InPool, ConflictsOf(h))

\* the candidate's fee with the delta PrioritiseTransaction recorded for it
CandidateModFee(h) ==
  Tx(h).nFee + (IF h \in DOMAIN pool.mapDeltas THEN pool.mapDeltas[h] ELSE 0)

SamePool(q) ==
  /\ q.mapTx = pool.mapTx
  /\ q.mapLinks = pool.mapLinks
  /\ q.mapNextTx = pool.mapNextTx
  /\ q.totalTxSize = pool.totalTxSize

\* the reasons of the rejections the code returns before it looks for
\* conflicts, and before the replacement checks
BeforeConflictCheck ==
  {"bad-txns", "coinbase", "no-witness-yet", "nonstandard", "non-final",
   "txn-already-in-mempool"}

BeforeReplacementChecks ==
  BeforeConflictCheck \cup
  {"txn-mempool-conflict", "", "txn-already-known", "non-BIP68-final",
   "bad-txns-nonstandard-inputs", "bad-witness-nonstandard", "bad-txns-too-many-sigops",
   "mempool min fee not met", "min relay fee not met", "absurdly-high-fee",
   "too-long-mempool-chain", "bad-txns-spends-conflicting-tx"}

\* C5 as the specification states it: whatever the rejection, the pool is
\* as it was before the call, and the candidate is not added to it.
C5_AnyRejectionLeavesPoolUnchanged ==
  \A h \in TxIds, a \in Calls :
    LET r == Admit(h, a) IN
    ~r.ok => SamePool(r.pool) /\ (h \notin InPool => h \notin DOMAIN r.pool.mapTx)

\* C5: a rejection other than "mempool full" leaves the entries, the links,
\* mapNextTx, the aggregates and totalTxSize as they were; "mempool full" is
\* returned after the commit: the candidate is not in the pool, nothing was
\* added, and what the commit replaced, expired or trimmed stays removed.
C5_RejectionBeforeCommitLeavesPoolUnchanged ==
  \A h \in TxIds, a \in Calls :
    LET r == Admit(h, a) IN
    ~r.ok =>
      IF r.reason = "mempool full"
      THEN /\ h \notin DOMAIN r.pool.mapTx
           /\ DOMAIN r.pool.mapTx \subseteq InPool
           /\ EvictedBy(h) \cap DOMAIN r.pool.mapTx = {}
           /\ ~a.fOverrideMempoolLimit
      ELSE SamePool(r.pool) /\ (h \notin InPool => h \notin DOMAIN r.pool.mapTx)

\* a replacement was refused for its fee: its conflict and the descendants
\* of the conflict are still in the pool
C5_Witness ==
  /\ ~result.ok /\ result.reason = "insufficient fee"
  /\ \E h \in TxIds \ InPool :
       /\ \E a \in Calls : Admit(h, a).reason = "insufficient fee"
       /\ Cardinality(EvictedBy(h)) >= 2

\* C6 as the specification states it: a pool transaction that conflicts
\* with the candidate is replaced only if every one of its inputs has a
\* sequence of at most MAX_BIP125_RBF_SEQUENCE.
C6_ReplacedOnlyIfEveryInputSignals ==
  \A h \in TxIds, a \in Calls :
    ConflictsOf(h) # {} =>
      (Admit(h, a).ok =>
         \A c \in ConflictsOf(h) :
           \A i \in Tx(c).vin : i.nSequence <= MAX_BIP125_RBF_SEQUENCE)

\* C6: a conflicting pool transaction can be replaced when one of its inputs
\* has a sequence of at most MAX_BIP125_RBF_SEQUENCE; the call fails with
\* DUPLICATE "txn-mempool-conflict", the conflicts staying in the pool,
\* exactly when replacement is disabled or every input of some conflicting
\* transaction has a larger sequence.
C6_ReplaceableIfSomeInputSignals ==
  \A h \in TxIds, a \in Calls :
    ConflictsOf(h) # {} =>
      LET r == Admit(h, a)
          optOut == \/ ~a.fEnableReplacement
                    \/ \E c \in ConflictsOf(h) :
                         \A i \in Tx(c).vin : i.nSequence > MAX_BIP125_RBF_SEQUENCE
      IN /\ optOut /\ r.reason \notin BeforeConflictCheck =>
              /\ r.kind = "DUPLICATE" /\ r.reason = "txn-mempool-conflict"
              /\ ConflictsOf(h) \subseteq DOMAIN r.pool.mapTx
         /\ r.reason = "txn-mempool-conflict" => optOut
         /\ r.ok => ConflictsOf(h) \cap DOMAIN r.pool.mapTx = {}

\* the call was refused for a conflict all of whose inputs are final, and
\* the conflict is still in the pool
C6_Witness ==
  /\ result.reason = "txn-mempool-conflict" /\ result.kind = "DUPLICATE"
  /\ \E c \in InPool : \A i \in Tx(c).vin : i.nSequence > MAX_BIP125_RBF_SEQUENCE

\* the replacement pays for what it evicts and for its own bandwidth
PaysForReplacement(h) ==
  CandidateModFee(h) >= SumModFee(EvictedBy(h)) + GetFee(incrementalRelayFee, Tx(h).size)

\* C7: a replacement is admitted only if its modified fee is at least the
\* modified fees of everything it evicts plus incrementalRelayFee for its
\* own size; one that pays less is refused, with INSUFFICIENTFEE
\* "insufficient fee" unless an earlier check refused it.
C7_ReplacementPaysForEvicted ==
  \A h \in TxIds \ InPool, a \in Calls :
    ConflictsOf(h) # {} =>
      LET r == Admit(h, a) IN
      /\ r.ok => PaysForReplacement(h)
      /\ ~PaysForReplacement(h) =>
           /\ ~r.ok
           /\ \/ r.reason = "insufficient fee" /\ r.kind = "INSUFFICIENTFEE"
              \/ r.reason \in BeforeReplacementChecks
                                \cup {"too many potential replacements",
                                      "replacement-adds-unconfirmed"}

\* the feerate of the candidate is strictly above the feerate of c
FeeRateAbove(h, c) == CandidateModFee(h) * Tx(c).size > ModifiedFee(c) * Tx(h).size

\* the call was refused for its fee although the candidate's feerate is
\* above that of each of its conflicts
C7_Witness ==
  /\ result.reason = "insufficient fee" /\ result.kind = "INSUFFICIENTFEE"
  /\ \A h \in TxIds, a \in Calls :
       Admit(h, a).reason = "insufficient fee" =>
         /\ \A c \in ConflictsOf(h) : FeeRateAbove(h, c)
         /\ ~PaysForReplacement(h)

\* C8: a replacement is admitted only if its modified feerate is strictly
\* greater than that of every transaction it directly conflicts with; when
\* it is equal or lower for one of them the call is refused, with
\* INSUFFICIENTFEE "insufficient fee" unless an earlier check refused it.
C8_ReplacementFeeRateStrictlyHigher ==
  \A h \in TxIds \ InPool, a \in Calls :
    ConflictsOf(h) # {} =>
      LET r == Admit(h, a) IN
      /\ r.ok => \A c \in ConflictsOf(h) : FeeRateAbove(h, c)
      /\ (\E c \in ConflictsOf(h) : ~FeeRateAbove(h, c)) =>
           /\ ~r.ok
           /\ \/ r.reason = "insufficient fee" /\ r.kind = "INSUFFICIENTFEE"
              \/ r.reason \in BeforeReplacementChecks

\* the call was refused for its fee although the candidate pays for what it
\* would evict: its feerate equals that of a conflict
C8_Witness ==
  /\ result.reason = "insufficient fee" /\ result.kind = "INSUFFICIENTFEE"
  /\ \A h \in TxIds, a \in Calls :
       Admit(h, a).reason = "insufficient fee" =>
         /\ PaysForReplacement(h)
         /\ \E c \in ConflictsOf(h) :
              CandidateModFee(h) * Tx(c).size = ModifiedFee(c) * Tx(h).size

Position(sig, m) == CHOOSE i \in 1..Len(sig) : sig[i] = m

\* C9: when a replacement is admitted, every direct conflict and every
\* in-pool descendant of one is removed with reason REPLACED, the
\* replacement is in the pool, and each removal is reported before the
\* replacement is reported as added.
C9_ReplacedRemovedBeforeAdded ==
  \A h \in TxIds \ InPool, a \in Calls :
    ConflictsOf(h) # {} =>
      LET r == Admit(h, a)
          sig == r.pool.signals
      IN r.ok =>
           /\ h \in DOMAIN r.pool.mapTx
           /\ \E j \in 1..Len(sig) : sig[j] = NotifyEntryAdded(h)
           /\ \E j \in 1..Len(sig) : sig[j] = TransactionAddedToMempool(h)
           /\ \A c \in EvictedBy(h) :
                /\ c \notin DOMAIN r.pool.mapTx
                /\ Removed(sig, c, "REPLACED")
                /\ Position(sig, NotifyEntryRemoved(c, "REPLACED"))
                     < Position(sig, NotifyEntryAdded(h))
                /\ Position(sig, NotifyEntryRemoved(c, "REPLACED"))
                     < Position(sig, TransactionAddedToMempool(h))

\* a replacement was admitted that evicted a conflict and a descendant of it
C9_Witness ==
  /\ result.ok
  /\ \E c, d \in TxIds \ InPool :
       /\ d \in ChildrenIn(TxIds, c)
       /\ Removed(pool.signals, c, "REPLACED") /\ Removed(pool.signals, d, "REPLACED")
       /\ \E h \in InPool :
            /\ Prevouts(h) \cap Prevouts(c) # {}
            /\ pool.signals[Len(pool.signals)] = TransactionAddedToMempool(h)

\* the in-pool parents of the candidate that no direct conflict spends from
NewUnconfirmedParents(h) ==
  ParentsIn(InPool, h) \ UNION {PrevHashes(c) : c \in ConflictsOf(h)}

\* C10: an admitted replacement has no in-pool parent that is not among the
\* transactions its direct conflicts spend from; a replacement with such a
\* parent is refused, with NONSTANDARD "replacement-adds-unconfirmed" unless
\* an earlier check refused it.
C10_ReplacementAddsNoUnconfirmedParent ==
  \A h \in TxIds \ InPool, a \in Calls :
    ConflictsOf(h) # {} =>
      LET r == Admit(h, a) IN
      /\ r.ok => NewUnconfirmedParents(h) = {}
      /\ NewUnconfirmedParents(h) # {} =>
           /\ ~r.ok
           /\ \/ r.reason = "replacement-adds-unconfirmed" /\ r.kind = "NONSTANDARD"
              \/ r.reason \in BeforeReplacementChecks \cup {"too many potential replacements"}
              \/ /\ r.reason = "insufficient fee"
                 /\ \E c \in ConflictsOf(h) :
                      CFeeRate(CandidateModFee(h), Tx(h).size)
                        <= CFeeRate(ModifiedFee(c), Tx(c).size)

\* the call was refused for a parent in the pool that its conflict does not
\* spend from
C10_Witness ==
  /\ result.reason = "replacement-adds-unconfirmed" /\ result.kind = "NONSTANDARD"
  /\ \E h \in TxIds \ InPool : ConflictsOf(h) # {} /\ NewUnconfirmedParents(h) # {}

(***************************************************************************)
(* The bound on the work of a replacement.                                 *)
(***************************************************************************)
\* the sum of nCountWithDescendants over the direct conflicts
ConflictingCount(q) ==
  SumOver(1..Len(q), [i \in 1..Len(q) |-> q[i].nCountWithDescendants])

\* C11: once the loop over the direct conflicts has ended, the call is
\* refused with NONSTANDARD "too many potential replacements" exactly when
\* no feerate comparison refused it and the sum of nCountWithDescendants
\* over the direct conflicts exceeds 100; with a sum of exactly 100 the set
\* to evict is computed.  The refusal comes before anything is staged.
C11_TooManyReplacementsAbove100 ==
  LET total == ConflictingCount(rbf.setConflicts)
      lower == \E i \in 1..Len(rbf.setConflicts) : rbf.setConflicts[i].fLowerFeeRate
      tooMany == /\ rbf.pc = "rejected" /\ rbf.kind = "NONSTANDARD"
                 /\ rbf.reason = "too many potential replacements"
  IN rbf.pc \in {"rejected", "evict"} =>
       /\ (~lower /\ total > 100) => tooMany
       /\ tooMany => total > 100 /\ ~lower
       /\ (~lower /\ total = 100) => rbf.pc = "evict"
       /\ rbf.pc = "evict" => total <= 100

\* four conflicts of 25 and one of 1: 101 transactions to visit, refused
C11_Witness ==
  /\ rbf.pc = "rejected" /\ rbf.reason = "too many potential replacements"
  /\ ConflictingCount(rbf.setConflicts) = 101


(***************************************************************************)
(* The candidate that spends a transaction it conflicts with.              *)
(***************************************************************************)
\* the in-pool ancestors of a candidate
CandidateAncestors(h) == WithAncestors(InPool, h) \ {h}

\* the reasons of the rejections the code returns before it compares the
\* ancestors with the conflicts
BeforeSelfConflictCheck == BeforeReplacementChecks \ {"bad-txns-spends-conflicting-tx"}

\* C12: a candidate one of whose in-pool ancestors is a transaction it
\* conflicts with is refused, with INVALID "bad-txns-spends-conflicting-tx"
\* when it passes the earlier steps, and that rejection is returned only
\* for such a candidate; the pool is as it was, so the conflicting
\* transaction remains.
C12_SpendsConflictingRejected ==
  \A h \in TxIds \ InPool, a \in Calls :
    LET r == Admit(h, a)
        spendsConflicting == ConflictsOf(h) \cap CandidateAncestors(h) # {}
    IN /\ spendsConflicting =>
            /\ ~r.ok
            /\ \/ r.reason = "bad-txns-spends-conflicting-tx" /\ r.kind = "INVALID"
               \/ r.reason \in BeforeSelfConflictCheck
            /\ ConflictsOf(h) \subseteq DOMAIN r.pool.mapTx
       /\ r.reason = "bad-txns-spends-conflicting-tx" =>
            /\ spendsConflicting
            /\ SamePool(r.pool)
            /\ ~r.missingInputs

\* the call was refused for a candidate that double-spends an input of a
\* pool transaction and spends an output of it; that transaction is still
\* in the pool
C12_Witness ==
  /\ result.reason = "bad-txns-spends-conflicting-tx" /\ result.kind = "INVALID"
  /\ \E h \in TxIds \ InPool : ConflictsOf(h) \cap CandidateAncestors(h) # {}


(***************************************************************************)
(* The limits on the chain of unconfirmed ancestors.                       *)
(***************************************************************************)
\* the limits the search is called with: the configured ones and tighter
\* ones, so that each limit is exceeded alone
CountLimits == {2, nLimitAncestors, 4}
SizeLimits == {200, nLimitAncestorSize}

\* one of the four limits is exceeded for candidate h, on the in-pool
\* ancestors anc computed from the transaction graph
LimitExceeded(h, anc, limitAncestorCount, limitAncestorSize, limitDescendantCount, limitDescendantSize) ==
  \/ Cardinality(anc) + 1 > limitAncestorCount
  \/ SumSize(anc \cup {h}) > limitAncestorSize
  \/ \E A \in anc : pool.mapTx[A].nCountWithDescendants + 1 > limitDescendantCount
  \/ \E A \in anc : pool.mapTx[A].nSizeWithDescendants + Tx(h).size > limitDescendantSize

\* the rejections of a candidate before the ancestors are computed
BeforeChainLimits ==
  BeforeSelfConflictCheck \ {"too-long-mempool-chain"}

\* the chain A, B, C, D of the transaction table: each spends the one before
ChainOfLimit == {1, 2, 3}
ChainNext == CHOOSE h \in TxIds \ ChainOfLimit : PrevHashes(h) = {3}

EachLimitAlone(h) ==
  LET anc == CandidateAncestors(h) IN
  /\ LimitExceeded(h, anc, 2, nLimitAncestorSize, 4, nLimitDescendantSize)
  /\ LimitExceeded(h, anc, 4, 200, 4, nLimitDescendantSize)
  /\ LimitExceeded(h, anc, 4, nLimitAncestorSize, 2, nLimitDescendantSize)
  /\ LimitExceeded(h, anc, 4, nLimitAncestorSize, 4, 200)
  /\ ~LimitExceeded(h, anc, 4, nLimitAncestorSize, 4, nLimitDescendantSize)

InputMissing(h) ==
  \E o \in Prevouts(h) : o \notin utxo /\ o \notin UNION {Outputs(c) : c \in InPool}

\* an output of the candidate is a coin of the coins cache in the call a
OutputKnown(h, a) == a.ext # "cache-miss" /\ \E o \in Outputs(h) : o \in utxo

\* the rejections before the inputs are looked up
BeforeInputLookup == BeforeConflictCheck \cup {"txn-mempool-conflict"}

\* C14: a candidate that passes the earlier steps and has an input that is
\* neither in the pool nor in the UTXO view fails with missingInputs set, no
\* rejection kind and no reason when none of its outputs is a known coin,
\* and with DUPLICATE "txn-already-known" when one is; the pool is as it
\* was; those two outcomes are returned for no other candidate.
C14_MissingInputs ==
  \A h \in TxIds, a \in Calls :
    LET r == Admit(h, a) IN
    /\ (InputMissing(h) /\ r.reason \notin BeforeInputLookup) =>
         /\ ~r.ok /\ SamePool(r.pool)
         /\ IF OutputKnown(h, a)
            THEN r.kind = "DUPLICATE" /\ r.reason = "txn-already-known" /\ ~r.missingInputs
            ELSE r.missingInputs /\ r.kind = "" /\ r.reason = ""
    /\ r.missingInputs => InputMissing(h) /\ ~OutputKnown(h, a) /\ r.kind = ""
    /\ r.reason = "txn-already-known" => InputMissing(h) /\ OutputKnown(h, a)

\* the last call ended with missingInputs set and no rejection kind, and a
\* confirmed transaction submitted again is refused as already known
C14_Witness ==
  /\ result.missingInputs /\ result.kind = "" /\ ~result.ok
  /\ \E h \in TxIds, a \in Calls : Admit(h, a).reason = "txn-already-known"
  /\ \E h \in TxIds, a \in Calls : InputMissing(h) /\ Admit(h, a).missingInputs

\* the rejections before the candidate's txid is looked up in the pool
BeforeDuplicate == BeforeConflictCheck \ {"txn-already-in-mempool"}

\* C15: a transaction whose txid is in the pool is refused, with DUPLICATE
\* "txn-already-in-mempool" when it passes the steps before, never as a
\* conflict of itself, and the pool is as it was; that rejection is returned
\* for no other candidate; every txid is in the pool once: the pool's total
\* size counts each entry once.
C15_AlreadyInMempool ==
  /\ \A h \in TxIds, a \in Calls :
       LET r == Admit(h, a) IN
       /\ h \in InPool =>
            /\ ~r.ok /\ SamePool(r.pool)
            /\ \/ r.kind = "DUPLICATE" /\ r.reason = "txn-already-in-mempool"
               \/ r.reason \in BeforeDuplicate
       /\ r.reason = "txn-already-in-mempool" => h \in InPool
  /\ pool.totalTxSize = SumSize(InPool)

\* a pool transaction was submitted again and refused as a duplicate
C15_Witness ==
  /\ result.reason = "txn-already-in-mempool" /\ result.kind = "DUPLICATE"
  /\ \E h \in InPool, a \in Calls : Admit(h, a).reason = "txn-already-in-mempool"


(***************************************************************************)
(* Trimming to a size.                                                     *)
(***************************************************************************)
\* the limits trimToSize is called with
TrimLimits == {0, MaxMempool \div 3, MaxMempool \div 2, 2 * (MaxMempool \div 3), MaxMempool}

\* the entry of the lowest descendant feerate, from the transactions: the
\* modified fees of the entry and its in-pool descendants over their sizes,
\* compared by cross-multiplication, the lower txid first of two equal
LowestDescendantFeeRate ==
  CHOOSE e \in InPool : \A b \in InPool \ {e} :
    LET fe == SumModFee(WithDescendants(InPool, {e})) * SumSize(WithDescendants(InPool, {b}))
        fb == SumModFee(WithDescendants(InPool, {b})) * SumSize(WithDescendants(InPool, {e}))
    IN fe < fb \/ (fe = fb /\ e < b)

\* C16: trimToSize(limit) leaves the pool as it is when its usage is at
\* most limit; else it removes the entry of the lowest descendant feerate
\* with all its in-pool descendants and goes on as trimToSize(limit) does
\* on the pool without that package; what it removes is removed with the
\* reason SIZELIMIT, together with its descendants, and it ends with usage
\* at most limit or with an empty pool.
C16_TrimToSize ==
  \A limit \in TrimLimits :
    LET R == TrimToSize(Begin(pool), limit).pool
        removed == InPool \ DOMAIN R.mapTx
    IN /\ DOMAIN R.mapTx \subseteq InPool
       /\ DynamicMemoryUsage(R) <= limit \/ DOMAIN R.mapTx = {}
       /\ \A h \in InPool : h \in removed <=> Removed(R.signals, h, "SIZELIMIT")
       /\ WithDescendants(InPool, removed) = removed
       /\ \A h \in InPool \ removed : R.mapLinks[h].parents = ParentsIn(InPool, h)
       /\ IF DynamicMemoryUsage(pool) <= limit \/ InPool = {}
          THEN R = Begin(pool)
          ELSE LET pkg == WithDescendants(InPool, {LowestDescendantFeeRate})
                   P1 == removeRecursive(Begin(pool), LowestDescendantFeeRate, "SIZELIMIT")
               IN /\ pkg \subseteq removed
                  /\ InPool \ pkg = DOMAIN P1.mapTx
                  /\ DOMAIN R.mapTx = DOMAIN TrimToSize(P1, limit).pool.mapTx
                  /\ R.rollingMinimumFeeRate > 0 /\ ~R.blockSinceLastRollingFeeBump

\* the pool was trimmed: an entry was removed for the size limit with a
\* descendant of it, the pool is not empty, its usage is at most the
\* configured size, and trimming it again to that size removes nothing,
\* while a lower limit removes the rest
C16_Witness ==
  /\ result = NoCall
  /\ InPool # {}
  /\ DynamicMemoryUsage(pool) <= MaxMempool
  /\ \E h, d \in TxIds \ InPool :
       /\ h \in PrevHashes(d)
       /\ Removed(pool.signals, h, "SIZELIMIT") /\ Removed(pool.signals, d, "SIZELIMIT")
  /\ TrimToSize(Begin(pool), MaxMempool).pool = Begin(pool)
  /\ DOMAIN TrimToSize(Begin(pool), 0).pool.mapTx = {}


(***************************************************************************)
(* The rolling minimum feerate after a trim.                               *)
(***************************************************************************)
\* the rejections before the fee of the candidate is compared
BeforeFeeChecks ==
  BeforeInputLookup \cup
  {"", "txn-already-known", "non-BIP68-final", "bad-txns-nonstandard-inputs",
   "bad-witness-nonstandard", "bad-txns-too-many-sigops"}

\* the candidate's modified fee is below the fee of its size at the rolling
\* minimum feerate of the pool q
BelowRollingFee(q, h) ==
  Tx(h).nFee + (IF h \in DOMAIN q.mapDeltas THEN q.mapDeltas[h] ELSE 0)
    < GetFee(q.rollingMinimumFeeRate, Tx(h).size)

\* admission to the pool q refuses every candidate below the rolling fee
RefusedBelowRollingFee(q) ==
  \A h \in TxIds, a \in Calls :
    LET r == AcceptToMemoryPoolWorker(q, h, a) IN
    BelowRollingFee(q, h) =>
      /\ ~r.ok
      /\ \/ r.kind = "INSUFFICIENTFEE" /\ r.reason = "mempool min fee not met"
         \/ r.reason \in BeforeFeeChecks
      /\ DOMAIN r.pool.mapTx = DOMAIN q.mapTx

ExpiryTimes == 0..(MaxTime + 1)

\* the entries accepted before t and their in-pool descendants
ExpiredAt(t) == WithDescendants(InPool, {h \in InPool : pool.mapTx[h].nTime < t})

\* C18: expire(t) removes the entries accepted strictly before t and all
\* their in-pool descendants, each with the reason EXPIRY, leaves every
\* other entry in the pool with its fee and time, and returns the number of
\* entries it removed.
C18_ExpireRemovesOldAndDescendants ==
  \A t \in ExpiryTimes :
    LET E == Expire(Begin(pool), t) IN
    /\ DOMAIN E.pool.mapTx = InPool \ ExpiredAt(t)
    /\ \A h \in InPool : h \in ExpiredAt(t) <=> Removed(E.pool.signals, h, "EXPIRY")
    /\ Len(E.pool.signals) = Cardinality(ExpiredAt(t))
    /\ E.n = Cardinality(ExpiredAt(t))
    /\ \A h \in InPool \ ExpiredAt(t) :
         /\ E.pool.mapTx[h].nTime = pool.mapTx[h].nTime
         /\ E.pool.mapTx[h].nFee = pool.mapTx[h].nFee
         /\ E.pool.mapTx[h].nTime >= t

\* an expiry removed an entry with a child of it and left the entries
\* accepted at the time of the call
C18_Witness ==
  /\ result = NoCall
  /\ \E h, d \in TxIds \ InPool :
       /\ h \in PrevHashes(d)
       /\ Removed(pool.signals, h, "EXPIRY") /\ Removed(pool.signals, d, "EXPIRY")
  /\ InPool # {}
  /\ \A h \in InPool : pool.mapTx[h].nTime = now
  /\ ExpiredAt(now) = {}


(***************************************************************************)
(* The transactions of a connected block.                                  *)
(***************************************************************************)
\* the outpoints the transactions of a block spend
SpentBy(vtx) == UNION {Prevouts(vtx[i]) : i \in 1..Len(vtx)}

\* the pool transactions not in the block that spend an outpoint a
\* transaction of the block spends, and their in-pool descendants
ConflictingWithBlock(vtx) ==
  WithDescendants(InPool,
    {c \in InPool \ SeqToSet(vtx) : Prevouts(c) \cap SpentBy(vtx) # {}})

\* C19: removeForBlock removes the listed transactions that are in the pool,
\* each alone with the reason BLOCK, and the pool transactions that spend
\* an outpoint a listed transaction spends, each with all its descendants
\* and the reason CONFLICT; it removes nothing else, so a descendant of a
\* listed transaction that conflicts with nothing stays; afterwards no
\* entry and no record of mapNextTx spends an outpoint that a listed
\* transaction spends.
C19_RemoveForBlock ==
  \A vtx \in Blocks(utxo, Len(chain)) :
    LET R == removeForBlock(Begin(pool), vtx, now)
        listed == SeqToSet(vtx) \cap InPool
    IN /\ DOMAIN R.mapTx = InPool \ (listed \cup ConflictingWithBlock(vtx))
       /\ \A h \in listed : Removed(R.signals, h, "BLOCK")
       /\ \A h \in ConflictingWithBlock(vtx) : Removed(R.signals, h, "CONFLICT")
       /\ listed \cap ConflictingWithBlock(vtx) = {}
       /\ Len(R.signals) = Cardinality(listed \cup ConflictingWithBlock(vtx))
       /\ \A h \in DOMAIN R.mapTx : Prevouts(h) \cap SpentBy(vtx) = {}
       /\ DOMAIN R.mapNextTx \cap SpentBy(vtx) = {}
       /\ \A h \in listed : \A d \in ChildrenIn(InPool, h) :
            d \in DOMAIN R.mapTx \/ d \in listed \/ d \in ConflictingWithBlock(vtx)

\* a block was connected: a transaction of it was removed from the pool for
\* the block and a child of it stays in the pool; a block that spends what
\* that child spends removes it as a conflict together with a descendant
\* that spends nothing the block spends
C19_Witness ==
  /\ result = NoCall
  /\ chain # << >>
  /\ \E h \in SeqToSet(chain[Len(chain)]) :
       /\ Removed(pool.signals, h, "BLOCK")
       /\ \E d \in InPool : h \in PrevHashes(d)
  /\ \E vtx \in Blocks(utxo, Len(chain)) : \E c, d \in ConflictingWithBlock(vtx) :
       /\ Prevouts(c) \cap SpentBy(vtx) # {}
       /\ c \in PrevHashes(d) /\ Prevouts(d) \cap SpentBy(vtx) = {}
       /\ Removed(removeForBlock(Begin(pool), vtx, now).signals, d, "CONFLICT")


(***************************************************************************)
(* The list of the pool's transactions.                                    *)
(***************************************************************************)
\* CompareTxMemPoolEntryByScore: the higher modified feerate first, compared
\* by cross-multiplication; of two equal feerates the higher txid first
CompareTxMemPoolEntryByScore(p, a, b) ==
  LET f1 == ModFee(p, a) * GetTxSize(b)
      f2 == ModFee(p, b) * GetTxSize(a)
  IN IF f1 = f2 THEN b < a ELSE f1 > f2

\* the comparison by the score alone
DepthAndScoreComparator_ScoreOnly(p, a, b) == CompareTxMemPoolEntryByScore(p, a, b)

\* DepthAndScoreComparator: the count with ancestors, then the score
DepthAndScoreComparator(p, a, b) ==
  IF p.mapTx[a].nCountWithAncestors = p.mapTx[b].nCountWithAncestors
  THEN CompareTxMemPoolEntryByScore(p, a, b)
  ELSE p.mapTx[a].nCountWithAncestors < p.mapTx[b].nCountWithAncestors

\* std::sort(iters.begin(), iters.end(), DepthAndScoreComparator())
RECURSIVE SortDepthAndScore(_, _)
SortDepthAndScore(p, iters) ==
  IF iters = {} THEN << >>
  ELSE LET first == CHOOSE a \in iters :
                      \A b \in iters \ {a} : DepthAndScoreComparator(p, a, b)
       IN <<first>> \o SortDepthAndScore(p, iters \ {first})

\* CTxMemPool::GetSortedDepthAndScore
GetSortedDepthAndScore(p) == SortDepthAndScore(p, DOMAIN p.mapTx)

\* CTxMemPool::queryHashes(vtxid): the txids in that order
queryHashes(p) == GetSortedDepthAndScore(p)

\* C20: queryHashes lists every txid of the pool once, in ascending order
\* of the count with ancestors and by the score where the counts are
\* equal, so every entry comes after all its in-pool ancestors; the chain
\* A, B, C is listed A before B before C.
C20_QueryHashesOrder ==
  LET vtxid == queryHashes(pool) IN
  /\ Len(vtxid) = Cardinality(InPool)
  /\ SeqToSet(vtxid) = InPool
  /\ \A i, j \in 1..Len(vtxid) : i < j =>
       /\ vtxid[i] # vtxid[j]
       /\ pool.mapTx[vtxid[i]].nCountWithAncestors <= pool.mapTx[vtxid[j]].nCountWithAncestors
       /\ pool.mapTx[vtxid[i]].nCountWithAncestors = pool.mapTx[vtxid[j]].nCountWithAncestors
            => CompareTxMemPoolEntryByScore(pool, vtxid[i], vtxid[j])
  /\ \A h \in InPool : \A g \in WithAncestors(InPool, h) \ {h} :
       Position(vtxid, g) < Position(vtxid, h)
  /\ ChainOfLimit \subseteq InPool =>
       \A g, h \in ChainOfLimit : g < h => Position(vtxid, g) < Position(vtxid, h)

\* a disconnected block gave the pool A and B back, C that spends them was
\* in the pool, and the list is A, B, C although B pays the highest feerate
\* and C was added first
C20_Witness ==
  /\ result = NoCall
  /\ chain = << >>
  /\ \E i, j \in 1..Len(pool.signals) :
       i < j /\ pool.signals[i] = NotifyEntryAdded(1) /\ pool.signals[j] = NotifyEntryAdded(2)
  /\ ~(\E i \in 1..Len(pool.signals) : pool.signals[i] = NotifyEntryAdded(3))
  /\ queryHashes(pool) = <<1, 2, 3>>
  /\ CompareTxMemPoolEntryByScore(pool, 2, 1)


(***************************************************************************)
(* The fee deltas of PrioritiseTransaction.                                *)
(***************************************************************************)
\* mapDeltas[h] of the pool q, 0 when there is none
Delta(q, h) == IF h \in DOMAIN q.mapDeltas THEN q.mapDeltas[h] ELSE 0

\* C21 as the specification states it: no operation that removes an entry
\* from the pool changes the delta recorded for its txid.
C21_RemovalNeverChangesDelta ==
  [][\A h \in TxIds :
       (h \in DOMAIN pool.mapTx /\ h \notin DOMAIN pool'.mapTx)
         => Delta(pool', h) = Delta(pool, h)]_vars

\* C21: the entry created at admission carries the delta recorded for its
\* txid, whether it was recorded while the transaction was not in the pool
\* or before it was removed: its modified fee is fee + deltas[txid], and the
\* delta is in its own aggregates and in the descendant fees of each of its
\* ancestors; every entry's delta is the recorded one.  A recorded delta
\* changes only by PrioritiseTransaction and when a block is connected:
\* removeForBlock drops the delta of each transaction of the block and of
\* each pool transaction that spends an outpoint the block spends; every
\* other removal leaves it.
C21_DeltaSurvivesAbsence ==
  /\ [](/\ \A h \in InPool : pool.mapTx[h].feeDelta = Delta(pool, h)
        /\ \A h \in TxIds \ InPool, a \in Calls :
             LET r == Admit(h, a)
                 S == DOMAIN r.pool.mapTx
                 fee(x) == r.pool.mapTx[x].nFee + Delta(pool, x)
             IN (r.ok /\ h \in S) =>
                  /\ r.pool.mapDeltas = pool.mapDeltas
                  /\ r.pool.mapTx[h].nFee = Tx(h).nFee
                  /\ GetModifiedFee(r.pool.mapTx[h]) = Tx(h).nFee + Delta(pool, h)
                  /\ r.pool.mapTx[h].nModFeesWithDescendants = Tx(h).nFee + Delta(pool, h)
                  /\ r.pool.mapTx[h].nModFeesWithAncestors
                       = SumOver(WithAncestors(S, h), [x \in WithAncestors(S, h) |-> fee(x)])
                  /\ \A A \in WithAncestors(S, h) \ {h} :
                       r.pool.mapTx[A].nModFeesWithDescendants
                         = SumOver(WithDescendants(S, {A}),
                                   [x \in WithDescendants(S, {A}) |-> fee(x)]))
  /\ [][\A h \in TxIds :
         Delta(pool', h) # Delta(pool, h) =>
           \/ nPrio' # nPrio
           \/ /\ Len(chain') = Len(chain) + 1
              /\ h \notin DOMAIN pool'.mapDeltas
              /\ \/ h \in SeqToSet(chain'[Len(chain')])
                 \/ /\ h \in DOMAIN pool.mapTx
                    /\ Prevouts(h) \cap SpentBy(chain'[Len(chain')]) # {}]_vars

\* a transaction with a recorded delta was not in the pool and has just
\* been admitted as the child of a pool entry: the entry's modified fee and
\* its parent's descendant fees include the delta
C21_Witness ==
  /\ result.ok
  /\ \E h \in InPool :
       /\ pool.signals[Len(pool.signals)] = TransactionAddedToMempool(h)
       /\ Delta(pool, h) # 0
       /\ GetModifiedFee(pool.mapTx[h]) = Tx(h).nFee + Delta(pool, h)
       /\ \E A \in ParentsIn(InPool, h) :
            pool.mapTx[A].nModFeesWithDescendants
              = Tx(A).nFee + Tx(h).nFee + Delta(pool, h)


C23_PrioritiseThenUndoRestores ==
  \A id \in TxIds, d \in {FeeDelta, -FeeDelta} :
    LET p1 == PrioritiseTransaction(Begin(pool), id, d)
        q == PrioritiseTransaction(p1, id, -d)
        anc == WithAncestors(InPool, id) \ {id}
        desc == WithDescendants(InPool, {id}) \ {id}
    IN /\ q.mapTx = pool.mapTx
       /\ Delta(q, id) = Delta(pool, id)
       /\ Delta(p1, id) = Delta(pool, id) + d
       /\ DOMAIN p1.mapTx = InPool
       /\ id \notin InPool => p1.mapTx = pool.mapTx
       /\ id \in InPool =>
            /\ GetModifiedFee(p1.mapTx[id]) = ModifiedFee(id) + d
            /\ \A h \in InPool :
                 /\ p1.mapTx[h].nModFeesWithDescendants
                      = pool.mapTx[h].nModFeesWithDescendants
                        + (IF h \in anc \cup {id} THEN d ELSE 0)
                 /\ p1.mapTx[h].nModFeesWithAncestors
                      = pool.mapTx[h].nModFeesWithAncestors
                        + (IF h \in desc \cup {id} THEN d ELSE 0)

\* an entry with a parent and a child in the pool has just been
\* prioritised, and the opposite call takes the delta off the three
C23_Witness ==
  /\ result = NoCall /\ nPrio > 0
  /\ \E id \in InPool :
       /\ pool.mapTx[id].feeDelta # 0
       /\ ParentsIn(InPool, id) # {} /\ ChildrenIn(InPool, id) # {}
       /\ \A h \in WithAncestors(InPool, id) \cup WithDescendants(InPool, {id}) :
            LET q == PrioritiseTransaction(Begin(pool), id, -pool.mapTx[id].feeDelta) IN
            /\ q.mapTx[h].nModFeesWithDescendants
                 = SumOver(WithDescendants(InPool, {h}),
                           [x \in WithDescendants(InPool, {h}) |-> Tx(x).nFee])
            /\ q.mapTx[h].nModFeesWithAncestors
                 = SumOver(WithAncestors(InPool, h), [x \in WithAncestors(InPool, h) |-> Tx(x).nFee])


(***************************************************************************)
(* The limit of the pool at the end of an admission.                       *)
(***************************************************************************)
\* C24: a call with fOverrideMempoolLimit expires and trims nothing, and is
\* never refused as "mempool full"; the same call without it ends as the
\* call with it followed by LimitMempoolSize on the pool that holds the new
\* entry: it is refused with INSUFFICIENTFEE "mempool full" exactly when
\* the new entry is not in the pool after that, and the entry was added
\* before it was removed.
C24_LimitAfterInsertUnlessOverride ==
  \A h \in TxIds, a \in Calls :
    LET over == Admit(h, [a EXCEPT !.fOverrideMempoolLimit = TRUE])
        r == Admit(h, [a EXCEPT !.fOverrideMempoolLimit = FALSE])
        limited == LimitMempoolSize(over.pool, MaxMempool, MempoolExpiry, a.nTime)
    IN /\ over.reason # "mempool full"
       /\ \A i \in 1..Len(over.pool.signals) :
            over.pool.signals[i].reason \notin {"EXPIRY", "SIZELIMIT"}
       /\ over.ok => h \in DOMAIN over.pool.mapTx
       /\ ~over.ok => r.reason = over.reason /\ r.kind = over.kind /\ SamePool(r.pool)
       /\ over.ok =>
            /\ r.pool.mapTx = limited.mapTx
            /\ r.pool.mapLinks = limited.mapLinks
            /\ r.ok <=> h \in DOMAIN limited.mapTx
            /\ ~r.ok => r.kind = "INSUFFICIENTFEE" /\ r.reason = "mempool full"
            /\ r.reason = "mempool full" =>
                 \E i, j \in 1..Len(r.pool.signals) :
                   /\ i < j
                   /\ r.pool.signals[i] = NotifyEntryAdded(h)
                   /\ r.pool.signals[j].kind = "EntryRemoved" /\ r.pool.signals[j].tx = h
                   /\ r.pool.signals[j].reason \in {"EXPIRY", "SIZELIMIT"}
            /\ r.ok => DynamicMemoryUsage(r.pool) <= MaxMempool
                        /\ \A x \in DOMAIN r.pool.mapTx :
                             r.pool.mapTx[x].nTime >= a.nTime - MempoolExpiry

\* the call was refused as "mempool full": its entry was added, then
\* removed by the expiry or the trim that followed, and was not announced
\* as added to the mempool
C24_Witness ==
  /\ result.reason = "mempool full" /\ result.kind = "INSUFFICIENTFEE"
  /\ \E h \in TxIds \ InPool :
       /\ \E i, j \in 1..Len(pool.signals) :
            /\ i < j
            /\ pool.signals[i] = NotifyEntryAdded(h)
            /\ pool.signals[j].kind = "EntryRemoved" /\ pool.signals[j].tx = h
            /\ pool.signals[j].reason \in {"EXPIRY", "SIZELIMIT"}
       /\ \A i \in 1..Len(pool.signals) : pool.signals[i] # TransactionAddedToMempool(h)


(***************************************************************************)
(* The counters of the pool.                                               *)
(***************************************************************************)
\* C25: totalTxSize is the sum of the sizes of the entries of the pool,
\* in every reachable state and after each operation applied to it: an
\* admission or replacement, a recursive removal, an expiry, a trim, the
\* removal for a block, and clear.
C25_TotalTxSizeIsSumOfSizes ==
  LET Exact(q) ==
        q.totalTxSize = SumOver(DOMAIN q.mapTx, [x \in DOMAIN q.mapTx |-> Tx(x).size])
  IN /\ Exact(pool)
     /\ \A h \in TxIds :
          /\ \A a \in Calls : Exact(Admit(h, a).pool)
          /\ Exact(removeRecursive(Begin(pool), h, "MANUAL"))
     /\ \A t \in ExpiryTimes : Exact(Expire(Begin(pool), t).pool)
     /\ \A limit \in TrimLimits : Exact(TrimToSize(Begin(pool), limit).pool)
     /\ \A vtx \in Blocks(utxo, Len(chain)) : Exact(removeForBlock(Begin(pool), vtx, now))
     /\ Exact(clear(Begin(pool), now))
     /\ clear(Begin(pool), now).totalTxSize = 0

\* a replacement of a size other than that of the entry it replaced was
\* admitted next to another entry, and the total is the sum of the two
C25_Witness ==
  /\ result.ok
  /\ \E c \in TxIds \ InPool, h \in InPool :
       /\ Removed(pool.signals, c, "REPLACED")
       /\ pool.signals[Len(pool.signals)] = TransactionAddedToMempool(h)
       /\ Tx(c).size # Tx(h).size
       /\ InPool # {h}
       /\ pool.totalTxSize = SumSize(InPool)


(***************************************************************************)
(* The pool after a reorganisation.                                        *)
(***************************************************************************)
\* C26: after UpdateMempoolForReorg, for every transaction of the
\* disconnected block that is in the pool again: its children are the pool
\* entries that spend its outputs, and it is a parent of each; its
\* descendant aggregates are the sums over its in-pool descendants, and the
\* ancestor aggregates of each of its descendants are the sums over the
\* ancestors of that descendant, the resurrected transaction counted once.
C26_ReorgRestoresLinksAndAggregates ==
  chain # << >> =>
    \A fAddToMempool \in BOOLEAN, bad \in SUBSET SeqToSet(chain[Len(chain)]) :
      LET vtx == chain[Len(chain)]
          q == UpdateMempoolForReorg(Begin(pool), vtx, fAddToMempool, bad,
                                     UnspendAll(utxo, vtx), Len(chain) - 1, now)
          S == DOMAIN q.mapTx
          fee(x) == GetModifiedFee(q.mapTx[x])
          Sum(T, f(_)) == SumOver(T, [x \in T |-> f(x)])
          size(x) == Tx(x).size
          sigops(x) == Tx(x).sigOpCost
      IN /\ ~fAddToMempool => S \cap SeqToSet(vtx) = {}
         /\ S \cap bad = {}
         /\ \A h \in S \cap SeqToSet(vtx) :
              /\ q.mapLinks[h].children = ChildrenIn(S, h)
              /\ q.mapLinks[h].parents = ParentsIn(S, h)
              /\ \A c \in ChildrenIn(S, h) : h \in q.mapLinks[c].parents
              /\ q.mapTx[h].nCountWithDescendants = Cardinality(WithDescendants(S, {h}))
              /\ q.mapTx[h].nSizeWithDescendants = Sum(WithDescendants(S, {h}), size)
              /\ q.mapTx[h].nModFeesWithDescendants = Sum(WithDescendants(S, {h}), fee)
              /\ \A d \in WithDescendants(S, {h}) :
                   /\ q.mapTx[d].nCountWithAncestors = Cardinality(WithAncestors(S, d))
                   /\ q.mapTx[d].nSizeWithAncestors = Sum(WithAncestors(S, d), size)
                   /\ q.mapTx[d].nModFeesWithAncestors = Sum(WithAncestors(S, d), fee)
                   /\ q.mapTx[d].nSigOpCostWithAncestors = Sum(WithAncestors(S, d), sigops)

\* a block was disconnected and its two transactions are in the pool again,
\* with the entry that was in the pool and spends an output of each: it is
\* a child of both, counted once in the descendants of each, and has both
\* among its ancestors
C26_Witness ==
  /\ result = NoCall /\ chain = << >>
  /\ \E g, h \in InPool, c \in InPool :
       /\ g \in PrevHashes(h) /\ {g, h} \subseteq PrevHashes(c)
       /\ \E i, j \in 1..Len(pool.signals) :
            i < j /\ pool.signals[i] = NotifyEntryAdded(g) /\ pool.signals[j] = NotifyEntryAdded(h)
       /\ \A i \in 1..Len(pool.signals) : pool.signals[i] # NotifyEntryAdded(c)
       /\ pool.mapLinks[c].parents = {g, h}
       /\ pool.mapTx[g].nCountWithDescendants = 3 /\ pool.mapTx[h].nCountWithDescendants = 2
       /\ pool.mapTx[c].nCountWithAncestors = 3
       /\ pool.mapTx[g].nSizeWithDescendants = SumSize({g, h, c})


(***************************************************************************)
(* The rolling minimum feerate, step by step of a trim.                    *)
(***************************************************************************)
\* the pool as it is and as it is once PrioritiseTransaction has lowered
\* the fee of one transaction, so that a package of the pool can be below
\* the rolling feerate an earlier trim has left
TrimmedPools ==
  {Begin(pool)} \cup
  {PrioritiseTransaction(Begin(pool), h, -d) : h \in InPool, d \in {FeeDelta, 5 * FeeDelta}}

\* the feerate of the package that trimToSize evicts first from q, plus
\* incrementalRelayFee
FirstEvictedRate(q) ==
  CFeeRate(q.mapTx[DescendantScoreBegin(q)].nModFeesWithDescendants,
           q.mapTx[DescendantScoreBegin(q)].nSizeWithDescendants) + incrementalRelayFee

\* C30: each eviction step of trimToSize leaves the rolling minimum feerate
\* at the greater of its value before the step and F + incrementalRelayFee,
\* F the modified fees with descendants over the size with descendants of
\* the root of the evicted package; the steps that follow go on from that
\* value, so that the rolling minimum feerate never decreases during
\* trimToSize, and a trim that evicts nothing leaves it as it is.
C30_TrimRaisesRollingFee ==
  \A q \in TrimmedPools, limit \in TrimLimits :
    LET R == TrimToSize(q, limit).pool IN
    /\ R.rollingMinimumFeeRate >= q.rollingMinimumFeeRate
    /\ \A l2 \in TrimLimits :
         l2 >= limit =>
           R.rollingMinimumFeeRate >= TrimToSize(q, l2).pool.rollingMinimumFeeRate
    /\ IF DynamicMemoryUsage(q) <= limit \/ DOMAIN q.mapTx = {}
       THEN R.rollingMinimumFeeRate = q.rollingMinimumFeeRate
       ELSE LET raised == Max(q.rollingMinimumFeeRate, FirstEvictedRate(q))
                P1 == removeRecursive(q, DescendantScoreBegin(q), "SIZELIMIT")
                step == TrimToSize(q, DynamicMemoryUsage(P1)).pool
            IN /\ DOMAIN step.mapTx = DOMAIN P1.mapTx
               /\ step.rollingMinimumFeeRate = raised
               /\ R.rollingMinimumFeeRate
                    = Max(raised, TrimToSize(P1, limit).pool.rollingMinimumFeeRate)

\* a trim has evicted a package and raised the rolling feerate to the rate
\* of that package plus incrementalRelayFee; a further trim of what is left
\* raises it again, and once a fee of the pool is lowered the package
\* evicted next is below the rolling feerate, which the trim then keeps
C30_Witness ==
  /\ result = NoCall
  /\ \E h \in TxIds \ InPool : Removed(pool.signals, h, "SIZELIMIT")
  /\ InPool # {}
  /\ ~pool.blockSinceLastRollingFeeBump
  /\ pool.rollingMinimumFeeRate > incrementalRelayFee
  /\ FirstEvictedRate(Begin(pool)) > pool.rollingMinimumFeeRate
  /\ TrimToSize(Begin(pool), 0).pool.rollingMinimumFeeRate > pool.rollingMinimumFeeRate
  /\ \E q \in TrimmedPools :
       /\ FirstEvictedRate(q) < q.rollingMinimumFeeRate
       /\ DOMAIN TrimToSize(q, 0).pool.mapTx = {}
       /\ TrimToSize(q, 0).pool.rollingMinimumFeeRate = q.rollingMinimumFeeRate


(***************************************************************************)
(* The lock cs and the notifications.  AcceptToMemoryPoolWorker is         *)
(* followed step by step in the thread that validates, which holds cs_main *)
(* for the whole call; adm.pc is where that thread is, cs the thread that  *)
(* holds the pool's lock, note the notifications delivered to the          *)
(* listeners since the operation began, each with whether the delivering   *)
(* thread held cs.  A second thread, of the RPC server, reads the pool     *)
(* under cs (queryHashes).                                                 *)
(***************************************************************************)
LockCalls ==
  {Call(FALSE, TRUE, 0, TRUE, "ok"), Call(TRUE, FALSE, AbsurdFee, TRUE, "ok"),
   Call(FALSE, FALSE, 0, TRUE, "script-fail")}

\* where AcceptToMemoryPoolWorker returns r: up to the scan of mapNextTx
\* under the first LOCK(pool.cs), in the lookup of the inputs under the
\* second, in the checks made with no lock held, in the replacement checks
\* or in the script checks under the third, or at its end
ReturnsAt(r) ==
  IF r.ok \/ r.reason = "mempool full" THEN "commit"
  ELSE IF r.reason \in BeforeInputLookup THEN "conflicts"
  ELSE IF r.reason \in {"", "txn-already-known", "non-BIP68-final"} THEN "inputs"
  ELSE IF r.reason \in BeforeReplacementChecks THEN "policy"
  ELSE IF r.reason \in {"mandatory-script-verify-flag-failed",
                        "tip-script-verify-flag-failed"} THEN "scripts"
  ELSE "replacement"

\* the positions of the validating thread inside "LOCK(pool.cs)" of the
\* replacement checks, which is held to the end of the enclosing block
CommitLockScope_ReleasedForScripts ==
  {"replacement", "commit", "addUnchecked", "insert", "limit"}

\* the block of the third lock closed after RemoveStaged
CommitLockScope_EndsBeforeAddUnchecked == {"replacement", "scripts", "commit"}

CommitLockScope == {"replacement", "scripts", "commit", "addUnchecked", "insert", "limit"}

\* the signals of the sequence sig from the n-th on
SignalsFrom(sig, n) == SubSeq(sig, n, Len(sig))

\* the signals sig as delivered, held telling whether the thread holds cs
\* meanwhile
Delivered(sig, held) == [i \in 1..Len(sig) |-> [signal |-> sig[i], cs |-> held]]

\* the step delivers the signals sig
Deliver(sig, held) == note' = note \o Delivered(sig, held)

\* the return of AcceptToMemoryPoolWorker with the outcome r
Return(r) ==
  /\ adm' = NoAdmission
  /\ pool' = r.pool
  /\ result' = Outcome(r)

\* the lock of the validating thread is released, if it holds one
Unlock == cs' = IF cs = "validation" THEN "free" ELSE cs

\* the thread goes on to the position to; it takes cs on entering the
\* scope of the third lock and gives it back on leaving it
Goto(to) ==
  /\ (to \in CommitLockScope /\ adm.pc \notin CommitLockScope) => cs = "free"
  /\ adm' = [adm EXCEPT !.pc = to]
  /\ cs' = IF to \in CommitLockScope THEN "validation"
           ELSE IF cs = "validation" THEN "free" ELSE cs

\* allConflicting of the replacement checks: the conflicts of the candidate
\* in the pool with their descendants
AllConflicting(p, h) ==
  IF DirectConflicts(p, h) = {} THEN {}
  ELSE ReplacementCheck(p, h, ApplyDelta(p, h, Tx(h).nFee), DirectConflicts(p, h)).allConflicting

\* the checks before any lock, then the scan of mapNextTx for conflicts
\* under LOCK(pool.cs), released at the end of its block
EnterAdmission ==
  \E h \in TxIds, a \in LockCalls :
    \E r \in {AcceptToMemoryPoolWorker(Begin(pool), h, a)} :
      /\ adm.pc = "idle" /\ cs = "free"
      /\ Op
      /\ IF ReturnsAt(r) = "conflicts"
         THEN Return(r)
         ELSE /\ adm' = [NoAdmission EXCEPT !.pc = "inputs", !.hash = h, !.a = a]
              /\ pool' = Begin(pool)
              /\ result' = NoCall
      /\ note' = << >>
      /\ UNCHANGED <<cs, rbf, utxo, chain, now, nPrio>>

\* the inputs looked up, and CheckSequenceLocks, under the second
\* LOCK(pool.cs), released before the checks that follow
ResolveInputs ==
  /\ adm.pc = "inputs" /\ cs = "free"
  /\ \E r \in {AcceptToMemoryPoolWorker(pool, adm.hash, adm.a)} :
    /\ IF ReturnsAt(r) = "inputs"
       THEN Return(r)
       ELSE /\ adm' = [adm EXCEPT !.pc = "policy"]
            /\ UNCHANGED <<pool, result>>
    /\ UNCHANGED <<cs, note, rbf, utxo, chain, now, nPrio, nOps>>

\* the standardness of the inputs, the fees (GetMinFee takes cs itself),
\* the chain limits (CalculateMemPoolAncestors takes cs itself): the
\* thread holds no lock of its own here
PolicyChecks ==
  /\ adm.pc = "policy" /\ cs = "free"
  /\ \E r \in {AcceptToMemoryPoolWorker(pool, adm.hash, adm.a)} :
    /\ IF ReturnsAt(r) = "policy"
       THEN Return(r)
       ELSE /\ adm' = [adm EXCEPT
                         !.pc = "lock",
                         !.nModifiedFees = ApplyDelta(pool, adm.hash, Tx(adm.hash).nFee),
                         !.setAncestors =
                            CalculateMemPoolAncestors(
                              pool, adm.hash, nLimitAncestors, nLimitAncestorSize,
                              nLimitDescendants, nLimitDescendantSize, TRUE).setAncestors]
            /\ pool' = GetMinFee(pool, MaxMempool, adm.a.nTime).pool
            /\ UNCHANGED result
    /\ UNCHANGED <<cs, note, rbf, utxo, chain, now, nPrio, nOps>>

\* the pool as the checks after ApplyDelta see it: nModifiedFees is the
\* local variable set by "pool.ApplyDelta(hash, nModifiedFees)", whatever
\* mapDeltas holds for the candidate by now
WithFeesApplied(p) ==
  IF ApplyDelta(p, adm.hash, Tx(adm.hash).nFee) = adm.nModifiedFees THEN p
  ELSE [p EXCEPT !.mapDeltas = Put(@, adm.hash, adm.nModifiedFees - Tx(adm.hash).nFee)]

\* the outcome r of checks made on WithFeesApplied(pool), with the pool's
\* own mapDeltas
OfPool(r) == [r EXCEPT !.pool.mapDeltas = pool.mapDeltas]

\* "LOCK(pool.cs)" before the replacement checks
LockForCommit ==
  /\ adm.pc = "lock"
  /\ Goto("replacement")
  /\ UNCHANGED <<pool, result, note, rbf, utxo, chain, now, nPrio, nOps>>

\* the replacement checks, which compute allConflicting
ReplacementChecks ==
  /\ adm.pc = "replacement"
  /\ \E r \in {AcceptToMemoryPoolWorker(WithFeesApplied(pool), adm.hash, adm.a)} :
    /\ IF ReturnsAt(r) = "replacement"
       THEN Return(OfPool(r)) /\ Unlock
       ELSE /\ (adm.pc \in CommitLockScope /\ "scripts" \notin CommitLockScope) => Unlock
            /\ (adm.pc \in CommitLockScope <=> "scripts" \in CommitLockScope) => UNCHANGED cs
            /\ adm' = [adm EXCEPT !.pc = "scripts",
                                  !.allConflicting =
                                     AllConflicting(WithFeesApplied(pool), adm.hash)]
            /\ UNCHANGED <<pool, result>>
    /\ UNCHANGED <<note, rbf, utxo, chain, now, nPrio, nOps>>

\* CheckInputs with the standard flags and CheckInputsFromMempoolAndCache
ScriptChecks ==
  /\ adm.pc = "scripts"
  /\ \E r \in {AcceptToMemoryPoolWorker(WithFeesApplied(pool), adm.hash, adm.a)} :
    /\ IF ReturnsAt(r) = "scripts"
       THEN Return(OfPool(r)) /\ Unlock
       ELSE Goto("commit") /\ UNCHANGED <<pool, result>>
    /\ UNCHANGED <<note, rbf, utxo, chain, now, nPrio, nOps>>

\* "pool.RemoveStaged(allConflicting, false, REPLACED)"
RemoveConflicting ==
  /\ adm.pc = "commit"
  /\ \E p2 \in {RemoveStaged(pool, adm.allConflicting, FALSE, "REPLACED")} :
    /\ Goto("addUnchecked")
    /\ pool' = p2
    /\ Deliver(SignalsFrom(p2.signals, Len(pool.signals) + 1), cs = "validation")
    /\ UNCHANGED <<result, rbf, utxo, chain, now, nPrio, nOps>>

\* addUnchecked, its first statement: NotifyEntryAdded
NotifyAdded ==
  /\ adm.pc = "addUnchecked"
  /\ Goto("insert")
  /\ pool' = addUncheckedNotify(pool, adm.hash)
  /\ Deliver(<<NotifyEntryAdded(adm.hash)>>, cs = "validation")
  /\ UNCHANGED <<result, rbf, utxo, chain, now, nPrio, nOps>>

\* addUnchecked from its LOCK(cs) on
InsertEntry ==
  /\ adm.pc = "insert"
  /\ Goto("limit")
  /\ pool' = addUncheckedInsert(pool, adm.hash,
                                NewEntry(adm.hash, Tx(adm.hash).nFee, adm.a.nAcceptTime),
                                adm.setAncestors, validForFeeEstimation)
  /\ UNCHANGED <<note, result, rbf, utxo, chain, now, nPrio, nOps>>

\* the end of the block without the test "if (!pool.exists(hash))"
LimitAndUnlock_NoFullCheck ==
  /\ adm.pc = "limit"
  /\ \E p3 \in {LimitUnlessOverride(pool, adm.a.fOverrideMempoolLimit, adm.a.nTime)} :
    /\ Deliver(SignalsFrom(p3.signals, Len(pool.signals) + 1), cs = "validation")
    /\ Unlock
    /\ adm' = [adm EXCEPT !.pc = "signal"]
    /\ pool' = p3
    /\ UNCHANGED <<result, rbf, utxo, chain, now, nPrio, nOps>>

\* LimitMempoolSize unless fOverrideMempoolLimit, "mempool full" when the
\* entry is gone; the block of the third lock ends
LimitAndUnlock ==
  /\ adm.pc = "limit"
  /\ \E p3 \in {LimitUnlessOverride(pool, adm.a.fOverrideMempoolLimit, adm.a.nTime)} :
    /\ Deliver(SignalsFrom(p3.signals, Len(pool.signals) + 1), cs = "validation")
    /\ Unlock
    /\ IF exists(p3, adm.hash)
       THEN /\ adm' = [adm EXCEPT !.pc = "signal"]
            /\ pool' = p3
            /\ UNCHANGED result
       ELSE Return(Committed(p3, adm.hash, adm.allConflicting))
    /\ UNCHANGED <<rbf, utxo, chain, now, nPrio, nOps>>

\* "GetMainSignals().TransactionAddedToMempool(ptx)", after the block
SignalAdded ==
  /\ adm.pc = "signal"
  /\ \E r \in {Committed(pool, adm.hash, adm.allConflicting)} :
    /\ Return(r)
    /\ Deliver(<<TransactionAddedToMempool(adm.hash)>>, cs = "validation")
    /\ UNCHANGED <<cs, rbf, utxo, chain, now, nPrio, nOps>>

\* removeRecursive(tx, reason) by the validating thread between two
\* admissions: LOCK(cs) for the whole of it
LockedRemoveRecursive ==
  \E h \in TxIds :
    \E p2 \in {removeRecursive(Begin(pool), h, "MANUAL")} :
      /\ adm.pc = "idle" /\ cs = "free"
      /\ Op
      /\ pool' = p2
      /\ result' = NoCall
      /\ note' = Delivered(p2.signals, TRUE)
      /\ UNCHANGED <<adm, cs, rbf, utxo, chain, now, nPrio>>

\* queryHashes in the RPC thread: LOCK(cs)
ReaderLock ==
  /\ cs = "free"
  /\ cs' = "rpc"
  /\ UNCHANGED <<adm, note, pool, result, rbf, utxo, chain, now, nPrio, nOps>>

\* queryHashes returns and its lock is released
ReaderUnlock ==
  /\ cs = "rpc"
  /\ cs' = "free"
  /\ UNCHANGED <<adm, note, pool, result, rbf, utxo, chain, now, nPrio, nOps>>

LockNext ==
  \/ EnterAdmission
  \/ ResolveInputs
  \/ PolicyChecks
  \/ LockForCommit
  \/ ReplacementChecks
  \/ ScriptChecks
  \/ RemoveConflicting
  \/ NotifyAdded
  \/ InsertEntry
  \/ LimitAndUnlock
  \/ SignalAdded
  \/ LockedRemoveRecursive
  \/ ReaderLock
  \/ ReaderUnlock
  \/ Tick

LockSpec == Init /\ [][LockNext]_vars


(***************************************************************************)
(* The lock during the script checks.                                      *)
(***************************************************************************)
\* the statement that cs is free while the script checks run
C27_CsReleasedDuringScriptChecks == adm.pc = "scripts" => cs # "validation"

\* C27: admission holds the pool lock cs while consensus script
\* verification runs.  cs is released after the inputs are resolved, for
\* the checks of standardness, fees and chain limits, and is taken again
\* before the replacement checks; from there it is held through the script
\* checks, the removal of the replaced entries, the insertion and the
\* limiting of the pool, and no other thread can acquire cs during the
\* script checks.  It is released before TransactionAddedToMempool.
C27_CsHeldDuringScriptChecks ==
  /\ adm.pc \in {"replacement", "scripts", "commit", "addUnchecked", "insert", "limit"}
       => cs = "validation"
  /\ adm.pc \in {"idle", "inputs", "policy", "lock", "signal"} => cs # "validation"
  /\ adm.pc = "scripts" => ~ENABLED ReaderLock
  /\ (adm.pc = "policy" /\ cs = "free") => ENABLED ReaderLock

\* the script checks of a replacement are about to run: the validating
\* thread holds cs, which it did not hold when its fees were checked
C27_Witness ==
  /\ adm.pc = "scripts"
  /\ cs = "validation"
  /\ adm.allConflicting # {}
  /\ adm.setAncestors = {}
  /\ InPool # {}


(***************************************************************************)
(* The lock when a notification is delivered.                              *)
(***************************************************************************)
\* the statement that every notification is delivered under cs
C28_EveryNotificationUnderCs == \A i \in 1..Len(note) : note[i].cs

\* C28: the notifications "entry added" and "entry removed" are delivered
\* while the notifying thread holds cs; "transaction added to mempool" is
\* delivered by the admitting thread after it has released cs.  Every
\* signal of the operation is one of these deliveries.
C28_EntryNotificationsUnderCs ==
  /\ Len(note) = Len(pool.signals)
  /\ \A i \in 1..Len(note) :
       /\ note[i].signal = pool.signals[i]
       /\ note[i].signal.kind \in {"EntryAdded", "EntryRemoved", "TransactionAddedToMempool"}
       /\ note[i].signal.kind \in {"EntryAdded", "EntryRemoved"} => note[i].cs
       /\ note[i].signal.kind = "TransactionAddedToMempool" => ~note[i].cs

\* a replacement was admitted: the replaced entry's removal and the entry
\* added were notified under cs, the transaction added without it
C28_Witness ==
  /\ adm.pc = "idle" /\ result.ok
  /\ \E i, j, k \in 1..Len(note) :
       /\ i < j /\ j < k
       /\ note[i].signal.kind = "EntryRemoved" /\ note[i].signal.reason = "REPLACED"
       /\ note[i].cs
       /\ note[j].signal.kind = "EntryAdded" /\ note[j].cs
       /\ note[k].signal = TransactionAddedToMempool(note[j].signal.tx) /\ ~note[k].cs


(***************************************************************************)
(* What the pool holds when an "added" notification is delivered.          *)
(***************************************************************************)
\* the pool is whole: the aggregates, the links and the spend index agree
\* with the transactions of the pool
PoolWhole ==
  /\ C1_AncestorAggregatesExact /\ C2_DescendantAggregatesExact
  /\ C3_LinksAgreeWithTransactions /\ C4_SpendIndexExact

\* NotifyEntryAdded has just been delivered for the candidate
EntryAddedDelivered ==
  /\ adm.pc = "insert"
  /\ note # << >> /\ note[Len(note)].signal = NotifyEntryAdded(adm.hash)

\* TransactionAddedToMempool has just been delivered for h
TransactionAddedDelivered(h) ==
  /\ adm.pc = "idle"
  /\ note # << >> /\ note[Len(note)].signal = TransactionAddedToMempool(h)

\* the statement that the transaction is in the pool, fully linked, at
\* every "added" notification
C29_AddedNotifiedAfterInsertion ==
  /\ EntryAddedDelivered => (adm.hash \in InPool /\ PoolWhole)
  /\ \A h \in TxIds : TransactionAddedDelivered(h) => (h \in InPool /\ PoolWhole)

\* C29: no listener observes a half-inserted entry.  When the notification
\* "entry added" is delivered the insertion has not begun: the transaction
\* is not in mapTx, has no links and no record in mapNextTx, the entries it
\* replaces are gone, and the pool without it is whole.  When
\* TransactionAddedToMempool is delivered the transaction is in mapTx with
\* its links, its records in mapNextTx and the aggregates of itself and of
\* its ancestors updated.  The pool is whole in every state between.
C29_NoHalfInsertedEntryObserved ==
  /\ PoolWhole
  /\ EntryAddedDelivered =>
       /\ adm.hash \notin InPool
       /\ adm.hash \notin DOMAIN pool.mapLinks
       /\ Prevouts(adm.hash) \cap DOMAIN pool.mapNextTx = {}
       /\ adm.allConflicting \cap InPool = {}
       /\ adm.setAncestors \subseteq InPool
  /\ \A h \in TxIds :
       TransactionAddedDelivered(h) =>
         /\ h \in InPool
         /\ result.ok
         /\ \A o \in Prevouts(h) : o \in DOMAIN pool.mapNextTx /\ pool.mapNextTx[o] = h
         /\ pool.mapLinks[h].parents = ParentsIn(InPool, h)
         /\ \A g \in WithAncestors(InPool, h) \ {h} :
              h \in WithDescendants(InPool, {g})
              /\ pool.mapTx[g].nCountWithDescendants >= 2

\* "entry added" has just been delivered for a candidate that has a parent
\* in the pool and replaces an entry: the candidate is not in the pool yet
C29_Witness ==
  /\ EntryAddedDelivered
  /\ adm.setAncestors # {}
  /\ adm.allConflicting # {}
  /\ adm.hash \notin InPool
  /\ \E c \in adm.allConflicting : Removed(pool.signals, c, "REPLACED")


(***************************************************************************)
(* What PrioritiseTransaction changes.                                     *)
(***************************************************************************)
\* C31: prioritise(txid, d) adds d to deltas[txid] and changes no other
\* delta; if the entry is in the pool it adds d to the entry's modified fee
\* and to both fee aggregates of the entry, to modFeesWithDescendants of
\* every strict ancestor and to modFeesWithAncestors of every strict
\* descendant; no count, size or sig-op aggregate changes, no other entry
\* changes, and nothing else of the pool changes.
C31_PrioritiseChangesOnlyFees ==
  \A id \in TxIds, d \in {FeeDelta, -FeeDelta, 3 * FeeDelta} :
    LET q == PrioritiseTransaction(Begin(pool), id, d)
        anc == IF id \in InPool THEN WithAncestors(InPool, id) \ {id} ELSE {}
        desc == IF id \in InPool THEN WithDescendants(InPool, {id}) \ {id} ELSE {}
        expected(h) ==
          [pool.mapTx[h] EXCEPT
             !.feeDelta = @ + (IF h = id THEN d ELSE 0),
             !.nModFeesWithDescendants = @ + (IF h \in anc \cup {id} THEN d ELSE 0),
             !.nModFeesWithAncestors = @ + (IF h \in desc \cup {id} THEN d ELSE 0)]
    IN /\ q.mapDeltas = Put(pool.mapDeltas, id, Delta(pool, id) + d)
       /\ \A h \in TxIds \ {id} : Delta(q, h) = Delta(pool, h)
       /\ q = [Begin(pool) EXCEPT !.mapDeltas = q.mapDeltas,
                                  !.mapTx = [h \in InPool |-> expected(h)]]
       /\ id \notin InPool => q.mapTx = pool.mapTx
       /\ \A h \in InPool \ (anc \cup desc \cup {id}) : q.mapTx[h] = pool.mapTx[h]

\* an entry with a parent and a grandparent that is not its parent, and
\* with a delta already, is in the pool: a further prioritise raises the
\* descendant fees of both ancestors and nothing else of them
C31_Witness ==
  \E id \in InPool :
    \E g \in WithAncestors(InPool, id) \ ({id} \cup ParentsIn(InPool, id)) :
      LET q == PrioritiseTransaction(Begin(pool), id, FeeDelta) IN
      /\ q.mapTx[g].nModFeesWithDescendants = pool.mapTx[g].nModFeesWithDescendants + FeeDelta
      /\ q.mapTx[g].nModFeesWithAncestors = pool.mapTx[g].nModFeesWithAncestors
      /\ q.mapTx[id].feeDelta = pool.mapTx[id].feeDelta + FeeDelta
      /\ \E x \in InPool : pool.mapTx[x].feeDelta # 0


(***************************************************************************)
(* What removeRecursive removes and leaves.                                *)
(***************************************************************************)
\* C32: removeRecursive(tx) removes tx and all its in-pool descendants when
\* tx is in the pool, and else every pool entry that spends an output of tx
\* with all the descendants of those entries, each notified with the reason
\* given.  No remaining entry spends an output of tx or has a removed
\* ancestor; the links, the spend index and the aggregates of the remaining
\* entries are exact; an entry with no removed descendant keeps its fees,
\* time, aggregates and links, and the deltas are kept.
C32_RemoveRecursive ==
  \A tx \in TxIds :
    LET q == removeRecursive(Begin(pool), tx, "MANUAL")
        Rem == DOMAIN q.mapTx
        gone == InPool \ Rem
        plain(e) == [e EXCEPT !.vTxHashesIdx = 0]
    IN /\ Rem \subseteq InPool
       /\ tx \in InPool => gone = WithDescendants(InPool, {tx})
       /\ tx \notin InPool => gone = WithDescendants(InPool, ChildrenIn(InPool, tx))
       /\ \A h \in InPool : h \in gone <=> Removed(q.signals, h, "MANUAL")
       /\ Len(q.signals) = Cardinality(gone)
       /\ \A h \in Rem :
            /\ h # tx /\ tx \notin PrevHashes(h)
            /\ WithAncestors(InPool, h) \cap gone = {}
            /\ q.mapLinks[h].parents = ParentsIn(Rem, h)
            /\ q.mapLinks[h].children = ChildrenIn(Rem, h)
            /\ \A o \in Prevouts(h) : o \in DOMAIN q.mapNextTx /\ q.mapNextTx[o] = h
            /\ q.mapTx[h].nCountWithAncestors = Cardinality(WithAncestors(Rem, h))
            /\ q.mapTx[h].nSizeWithAncestors = SumSize(WithAncestors(Rem, h))
            /\ q.mapTx[h].nModFeesWithAncestors = SumModFee(WithAncestors(Rem, h))
            /\ q.mapTx[h].nSigOpCostWithAncestors = SumSigOps(WithAncestors(Rem, h))
            /\ q.mapTx[h].nCountWithDescendants = Cardinality(WithDescendants(Rem, {h}))
            /\ q.mapTx[h].nSizeWithDescendants = SumSize(WithDescendants(Rem, {h}))
            /\ q.mapTx[h].nModFeesWithDescendants = SumModFee(WithDescendants(Rem, {h}))
            /\ WithDescendants(InPool, {h}) \cap gone = {} =>
                 /\ plain(q.mapTx[h]) = plain(pool.mapTx[h])
                 /\ q.mapLinks[h] = pool.mapLinks[h]
       /\ DOMAIN q.mapLinks = Rem
       /\ \A o \in DOMAIN q.mapNextTx : q.mapNextTx[o] \in Rem
       /\ q.mapDeltas = pool.mapDeltas
       /\ q.totalTxSize = SumSize(Rem)

\* a removeRecursive has removed an entry and its child while the parent of
\* the entry, confirmed in a block, was not in the pool and was not removed
C32_Witness ==
  /\ result = NoCall
  /\ \E h, d \in TxIds \ InPool :
       /\ h \in PrevHashes(d)
       /\ Removed(pool.signals, h, "MANUAL") /\ Removed(pool.signals, d, "MANUAL")
       /\ \E tx \in PrevHashes(h) :
            /\ tx \notin InPool /\ ~Removed(pool.signals, tx, "MANUAL")
            /\ \E i \in 1..Len(chain) : tx \in SeqToSet(chain[i])


(***************************************************************************)
(* The outpoints that TrimToSize returns.                                  *)
(***************************************************************************)
\* the inputs of the transactions that are in the pool and not in q
InputsRemoved(q) == UNION {Prevouts(h) : h \in InPool \ DOMAIN q.mapTx}

\* the outpoint o is spent by no entry of q and was not created by one
NoSpendsRemaining(q, o) == o \notin DOMAIN q.mapNextTx /\ o[1] \notin DOMAIN q.mapTx

\* one round of the loop of TrimToSize from q: the limit is one below the
\* usage of q, and every removal lowers the usage
TrimOneRound(q) == TrimToSize(q, DynamicMemoryUsage(q) - 1).pool

\* the pool at the end of the round of TrimToSize that removes h, from q
RECURSIVE AfterRoundOf(_, _)
AfterRoundOf(q, h) ==
  IF h \notin DOMAIN q.mapTx THEN q ELSE AfterRoundOf(TrimOneRound(q), h)

\* C33 as stated: the outpoints returned by TrimToSize are exactly the inputs
\* of the removed transactions that, after the removal, no pool entry spends
\* and whose creating transaction is not in the pool.
C33_ReturnsEveryUnreferencedInput ==
  \A limit \in TrimLimits :
    LET r == TrimToSize(Begin(pool), limit)
    IN r.vNoSpendsRemaining = {o \in InputsRemoved(r.pool) : NoSpendsRemaining(r.pool, o)}

\* C33: every outpoint returned by TrimToSize is an input of a transaction it
\* removed, and after the removal no pool entry spends it and the transaction
\* that created it is not in the pool.  An input of a removed transaction is
\* returned exactly when its creating transaction is not in the pool at the
\* end of the round that removed the spender: always when the creating
\* transaction was not in the pool before the trim, and always after a trim
\* of one round.
C33_ReturnedOutpointsUnreferenced ==
  \A limit \in TrimLimits :
    LET r == TrimToSize(Begin(pool), limit)
        gone == InPool \ DOMAIN r.pool.mapTx
    IN /\ r.vNoSpendsRemaining \subseteq
            {o \in InputsRemoved(r.pool) : NoSpendsRemaining(r.pool, o)}
       /\ \A h \in gone : \A o \in Prevouts(h) :
            /\ o \in r.vNoSpendsRemaining
                 <=> o[1] \notin DOMAIN AfterRoundOf(Begin(pool), h).mapTx
            /\ o[1] \notin InPool => o \in r.vNoSpendsRemaining
       /\ InPool # {} =>
            LET s == TrimToSize(Begin(pool), DynamicMemoryUsage(Begin(pool)) - 1)
            IN s.vNoSpendsRemaining
                 = {o \in InputsRemoved(s.pool) : NoSpendsRemaining(s.pool, o)}

\* a pool from which TrimToSize evicts an entry in one round and its parent
\* in a later one: the input that spends the parent is not returned, the
\* inputs of the parent are
C33_Witness ==
  \E limit \in TrimLimits :
    LET r == TrimToSize(Begin(pool), limit)
    IN /\ r.vNoSpendsRemaining # {}
       /\ \E o \in InputsRemoved(r.pool) :
            /\ NoSpendsRemaining(r.pool, o)
            /\ o \notin r.vNoSpendsRemaining
            /\ o[1] \in InPool
            /\ Prevouts(o[1]) \subseteq r.vNoSpendsRemaining


(***************************************************************************)
(* The asserts of UpdateDescendantState and UpdateAncestorState.           *)
(***************************************************************************)
\* C34: the accountant never over-subtracts: in every reachable state no
\* assert of the aggregate mutators has failed, on an entry of the pool or
\* on one that has left it, and every entry has countWithAncestors >= 1,
\* countWithDescendants >= 1, sizeWithAncestors > 0, sizeWithDescendants > 0
\* and sigOpCostWithAncestors >= 0.
C34_NeverOverSubtracts ==
  /\ ~pool.assertFailed
  /\ \A h \in InPool :
       /\ ~pool.mapTx[h].assertFailed
       /\ pool.mapTx[h].nCountWithAncestors >= 1
       /\ pool.mapTx[h].nCountWithDescendants >= 1
       /\ pool.mapTx[h].nSizeWithAncestors > 0
       /\ pool.mapTx[h].nSizeWithDescendants > 0
       /\ pool.mapTx[h].nSigOpCostWithAncestors >= 0

\* an entry that stays after its child was removed and is left with itself
\* as its only descendant, and its own child in turn removed with its parent
\* still in the pool: both subtractions reached the lowest value allowed
C34_Witness ==
  /\ result = NoCall
  /\ \E h \in InPool : \E d \in TxIds \ InPool :
       /\ h \in PrevHashes(d)
       /\ \E r \in {"MANUAL", "EXPIRY", "SIZELIMIT", "BLOCK", "CONFLICT", "REPLACED", "REORG"} :
            Removed(pool.signals, d, r)
       /\ pool.mapTx[h].nCountWithDescendants = 1
       /\ pool.mapTx[h].nSizeWithDescendants = GetTxSize(h)
       /\ pool.mapTx[h].nCountWithAncestors > 1


(***************************************************************************)
(* The script check against the flags of the tip.                          *)
(***************************************************************************)
\* C35: after the standard-flag script checks pass, admission re-runs the
\* script checks with the script verification flags of the current tip, and
\* a transaction that fails that re-check is never inserted into the pool:
\* whatever is admitted passes CheckInputs under the flags of the tip.
C35_TipFlagFailureNeverInserted ==
  \A h \in TxIds, a \in Calls :
    Admit(h, a).ok => CheckInputs(a.ext, GetBlockScriptFlags)


(***************************************************************************)
(* What the fee estimator is told at the commit.                           *)
(***************************************************************************)
\* C36: at commit the fee estimator is told the new entry is valid for
\* estimation exactly when the transaction is not a replacement, the node is
\* current and the transaction has no in-pool inputs, and else that it is
\* not valid: for every admission and either answer of
\* IsCurrentForFeeEstimation(), processTransaction is called once, for the
\* candidate, with that value.
C36_ValidForFeeEstimation ==
  \A h \in TxIds, a \in Calls, fCurrent \in BOOLEAN :
    LET r == Admit(h, a) IN
    r.ok =>
      /\ Len(r.pool.estimator) = 1
      /\ r.pool.estimator[1].hash = h
      /\ r.pool.estimator[1].validFeeEstimate
           = (~r.fReplacement /\ fCurrent /\ HasNoInputsOf(r.pool, h))


(***************************************************************************)
(* PrioritiseTransaction by a thread that takes cs alone, while the        *)
(* validating thread is between two of its locked regions.                 *)
(***************************************************************************)
\* PrioritiseTransaction(hash, nFeeDelta) for the candidate, under LOCK(cs)
ConcurrentPrioritise ==
  \E d \in {FeeDelta, -FeeDelta} :
    /\ adm.pc \in {"inputs", "policy", "lock"} /\ cs = "free"
    /\ nPrio < MaxPrio
    /\ nPrio' = nPrio + 1
    /\ pool' = PrioritiseTransaction(pool, adm.hash, d)
    /\ UNCHANGED <<adm, cs, note, result, rbf, utxo, chain, now, nOps>>

PrioritiseNext == LockNext \/ ConcurrentPrioritise

PrioritiseSpec == Init /\ [][PrioritiseNext]_vars

\* C37: the modified fee that admission uses for its fee decisions equals
\* the modified fee stored on the entry it inserts, under every interleaving
\* with a prioritise of the candidate by a thread that takes only cs: once
\* addUnchecked has inserted the entry, its modified fee is nModifiedFees.
C37_DecisionFeeIsStoredFee ==
  adm.pc = "limit" => GetModifiedFee(pool.mapTx[adm.hash]) = adm.nModifiedFees


(***************************************************************************)
(* vTxHashes and the entries.                                              *)
(***************************************************************************)
\* C38: the witness-hash sequence stays in step with the entries after any
\* sequence of insertions, removals and clear(): its length is the number of
\* entries, the index stored in each entry designates the slot that refers
\* back to the entry, and no slot refers to an entry that is not in the pool.
C38_WitnessHashesInStep ==
  /\ Len(pool.vTxHashes) = Cardinality(InPool)
  /\ \A h \in InPool :
       /\ pool.mapTx[h].vTxHashesIdx \in 1..Len(pool.vTxHashes)
       /\ pool.vTxHashes[pool.mapTx[h].vTxHashesIdx] = h
  /\ \A i \in 1..Len(pool.vTxHashes) : pool.vTxHashes[i] \in InPool


(***************************************************************************)
(* The chain limits of the entries, without a reorganisation.              *)
(***************************************************************************)
NoReorgNext ==
  \/ AcceptToMemoryPool
  \/ RemoveRecursive
  \/ Prioritise
  \/ ExpireOp
  \/ TrimOp
  \/ ClearOp
  \/ Tick
  \/ ConnectBlock

NoReorgSpec == Init /\ [][NoReorgNext]_vars

\* every entry of p is within the four limits
WithinLimits(p, limitAncestorCount, limitAncestorSize, limitDescendantCount, limitDescendantSize) ==
  \A h \in DOMAIN p.mapTx :
    /\ p.mapTx[h].nCountWithAncestors <= limitAncestorCount
    /\ p.mapTx[h].nSizeWithAncestors <= limitAncestorSize
    /\ p.mapTx[h].nCountWithDescendants <= limitDescendantCount
    /\ p.mapTx[h].nSizeWithDescendants <= limitDescendantSize

\* no entry of q has a count or a size above the one it has in the pool
NoAggregateGrown(q) ==
  \A h \in DOMAIN q.mapTx :
    /\ h \in InPool
    /\ q.mapTx[h].nCountWithAncestors <= pool.mapTx[h].nCountWithAncestors
    /\ q.mapTx[h].nSizeWithAncestors <= pool.mapTx[h].nSizeWithAncestors
    /\ q.mapTx[h].nCountWithDescendants <= pool.mapTx[h].nCountWithDescendants
    /\ q.mapTx[h].nSizeWithDescendants <= pool.mapTx[h].nSizeWithDescendants

\* the pool once the candidate h is inserted with the ancestors anc, the
\* entries it replaces removed
InsertedWith(h, anc) ==
  addUnchecked(RemoveStaged(Begin(pool), EvictedBy(h), FALSE, "REPLACED"),
               h, NewEntry(h, Tx(h).nFee, now), anc, validForFeeEstimation)

LaterTicks == 6
LaterTimes == now..(now + LaterTicks)

\* the rolling feerate was raised and no block was connected since
RaisedSinceBlock(p) == ~p.blockSinceLastRollingFeeBump /\ p.rollingMinimumFeeRate > 0

\* GetMinFee returns the raised rate of p at every later time, for every
\* size limit, and changes nothing
RaisedRateReturned(p) ==
  \A t \in LaterTimes, limit \in TrimLimits :
    /\ GetMinFee(p, limit, t).rate = p.rollingMinimumFeeRate
    /\ GetMinFee(p, limit, t).pool = p

\* once a block is connected GetMinFee returns 0 or at least
\* incrementalRelayFee, and a rate that has decayed by the time it is asked
DecayEnabled(p) ==
  \A t \in LaterTimes, limit \in TrimLimits :
    LET r == GetMinFee(p, limit, t) IN
    /\ r.rate = 0 \/ r.rate >= incrementalRelayFee
    /\ r.pool.rollingMinimumFeeRate <= p.rollingMinimumFeeRate
    /\ (t > p.lastRollingFeeUpdate /\ p.rollingMinimumFeeRate > 0) =>
         r.pool.rollingMinimumFeeRate < p.rollingMinimumFeeRate

\* the step connects a block
BlockConnected == Len(chain') = Len(chain) + 1

\* C40 as stated: the rolling minimum feerate does not decay until a block
\* has been connected since it was last raised: from a trimToSize that
\* raises it to the next removeForBlock, every GetMinFee returns the raised
\* rate however much time passes, so that a step that connects no block
\* leaves the rate raised, at the same value or a higher one; after
\* removeForBlock GetMinFee returns 0 or at least incrementalRelayFee.
C40_NoDecayUntilBlock ==
  /\ [](RaisedSinceBlock(pool) => RaisedRateReturned(pool))
  /\ [](pool.blockSinceLastRollingFeeBump => DecayEnabled(pool))
  /\ [][(RaisedSinceBlock(pool) /\ ~BlockConnected) =>
          /\ RaisedSinceBlock(pool')
          /\ pool'.rollingMinimumFeeRate >= pool.rollingMinimumFeeRate]_vars

\* C40: the same, until a block is connected or clear() empties the pool:
\* clear() sets the rate to 0.  The step that connects the block keeps the
\* rate and enables the decay.
C40_NoDecayUntilBlockOrClear ==
  /\ [](RaisedSinceBlock(pool) => RaisedRateReturned(pool))
  /\ [](pool.blockSinceLastRollingFeeBump => DecayEnabled(pool))
  /\ [][RaisedSinceBlock(pool) =>
          \/ /\ ~BlockConnected
             /\ RaisedSinceBlock(pool')
             /\ pool'.rollingMinimumFeeRate >= pool.rollingMinimumFeeRate
          \/ /\ BlockConnected
             /\ pool'.blockSinceLastRollingFeeBump
             /\ pool'.rollingMinimumFeeRate = pool.rollingMinimumFeeRate
          \/ /\ pool' = clear(Begin(pool), now)
             /\ pool'.rollingMinimumFeeRate = 0]_vars

\* a trim has raised the rate, no block was connected since and time has
\* passed: GetMinFee returns the raised rate now, and would return less
\* were the decay enabled
C40_Witness ==
  /\ RaisedSinceBlock(pool)
  /\ now > pool.lastRollingFeeUpdate
  /\ GetMinFee(pool, MaxMempool, now).rate = pool.rollingMinimumFeeRate
  /\ GetMinFee([pool EXCEPT !.blockSinceLastRollingFeeBump = TRUE], MaxMempool, now).rate
       < pool.rollingMinimumFeeRate

====
